---- MODULE Spec2Model ----
(***************************************************************************)
(* The environment-lighting pipeline of the 3d-web-experience client:      *)
(* Composer (rendering/composer.ts), SkyEnvironmentGenerator and the       *)
(* debug-panel value stores of tweakpane/blades/environmentFolder.ts.      *)
(*                                                                         *)
(* Number representation (TLC has integers only):                          *)
(*   angles in degrees        deci-degrees           219 deg    -> 2190    *)
(*   angles in radians        micro-radians          1 deg      -> 17450   *)
(*   sine / cosine values     thousandths            1.0        -> 1000    *)
(*   sun intensity            thousandths            7.2        -> 7200    *)
(*   turbidity, rayleigh      tenths                 3.5        -> 35      *)
(*   mieCoefficient           thousandths            0.008      -> 8       *)
(*   mieDirectionalG          hundredths             0.85       -> 85      *)
(*   other intensities        tenths                 1.0        -> 10      *)
(*   sun tracking speed       hundredths             0.01       -> 1       *)
(*   frame time, durations    seconds                                      *)
(***************************************************************************)
EXTENDS Integers, Sequences, FiniteSets, TLC

\* ------------------------------------------------------------------------
\* Bounds of the model
\* ------------------------------------------------------------------------

\* number of panorama decodes that may be started in one behaviour
MaxLoads == 2

\* number of caller operations (configuration updates, debug-panel changes)
\* in one behaviour of a specification that counts them
MaxOps == 2

\* render targets the generator constructs in one behaviour
MaxTargets == 3


\* ------------------------------------------------------------------------
\* Values that stand for "undefined" / "null" in the TypeScript source
\* ------------------------------------------------------------------------

\* an optional number that is not given (typeof x !== "number")
Absent == 0 - 999999

NoUrl == "undefined"

\* ------------------------------------------------------------------------
\* Arithmetic helpers
\* ------------------------------------------------------------------------

\* JavaScript's % operator: the result has the sign of the dividend
JsMod(a, b) ==
  LET m == IF b < 0 THEN 0 - b ELSE b
  IN  IF a >= 0 THEN a % m ELSE 0 - ((0 - a) % m)

\* integer division truncating toward zero (used to scale signed products)
TruncDiv(a, b) == IF a >= 0 THEN a \div b ELSE 0 - ((0 - a) \div b)

\* Math.sin on an angle in deci-degrees, result in thousandths.  The real sine
\* is replaced by Bhaskara's rational approximation, which is exact at
\* 0, 30, 90, 150 and 180 degrees, odd, 360-degree periodic and strictly
\* monotonic on each quarter turn.
Sin1000(dd) ==
  LET x == dd % 3600
      h == IF x <= 1800 THEN x ELSE x - 1800
      P == h * (1800 - h)
      v == (P * 2000) \div ((4050000 - P) \div 2)
  IN  IF x <= 1800 THEN v ELSE 0 - v

\* Math.cos on an angle in deci-degrees, result in thousandths
Cos1000(dd) == Sin1000(dd + 900)

\* degrees * (Math.PI / 180): deci-degrees to micro-radians
DegToRad(dd) == dd * 1745

\* the inverse scaling, micro-radians to deci-degrees
RadToDeg(r) == TruncDiv(r, 1745)

\* new Vector3(sin(polar) * cos(azimuth), cos(polar), sin(polar) * sin(azimuth))
\* on angles in deci-degrees; components in thousandths
SunDirection(azimuthal, polar) ==
  << TruncDiv(Sin1000(polar) * Cos1000(azimuthal), 1000),
     Cos1000(polar),
     TruncDiv(Sin1000(polar) * Sin1000(azimuthal), 1000) >>

\* ------------------------------------------------------------------------
\* EnvironmentConfiguration: the value the caller passes to the constructor
\* and to updateEnvironmentConfiguration.  Every optional number is either a
\* number or Absent; an optional object carries a flag saying it is given.
\* ------------------------------------------------------------------------

NoVector == << >>

NoAtmospheric ==
  [ given |-> FALSE, turbidity |-> Absent, rayleigh |-> Absent,
    mieCoefficient |-> Absent, mieDirectionalG |-> Absent,
    sunPosition |-> NoVector ]

\* skybox.source is the key of the union that is present in the object:
\* "hdrJpgUrl", "hdrUrl", "atmospheric", or "none" when the object has none
NoSkybox ==
  [ given |-> FALSE, source |-> "none", url |-> NoUrl,
    atmospheric |-> NoAtmospheric,
    intensity |-> Absent, blurriness |-> Absent,
    azimuthalAngle |-> Absent, polarAngle |-> Absent ]

NoTracking ==
  [ given |-> FALSE, enabled |-> "absent", speed |-> Absent,
    cycleDuration |-> Absent ]

NoSun ==
  [ intensity |-> Absent, azimuthalAngle |-> Absent, polarAngle |-> Absent,
    tracking |-> NoTracking ]

NoFogConfig == [ fogNear |-> Absent, fogFar |-> Absent, fogColor |-> NoVector ]

\* the configuration {} (also: no configuration at all)
EmptyConfig ==
  [ skybox |-> NoSkybox, envMapIntensity |-> Absent, sun |-> NoSun,
    fog |-> NoFogConfig, bloomIntensity |-> Absent,
    ambientLightIntensity |-> Absent ]

Urls == { "urlA", "urlB" }

PanoramaConfig(key, url) ==
  [ EmptyConfig EXCEPT !.skybox = [ NoSkybox EXCEPT !.given = TRUE,
                                                    !.source = key,
                                                    !.url = url ] ]

AtmosphericConfig(atm) ==
  [ EmptyConfig EXCEPT !.skybox = [ NoSkybox EXCEPT !.given = TRUE,
                                                    !.source = "atmospheric",
                                                    !.atmospheric = atm ] ]

TrackingConfig(enabled, speed, cycleDuration) ==
  [ EmptyConfig EXCEPT !.sun.tracking =
      [ given |-> TRUE, enabled |-> enabled, speed |-> speed,
        cycleDuration |-> cycleDuration ] ]

\* the configurations the caller supplies in this model
ConfigInputs ==
  { EmptyConfig }
  \cup { PanoramaConfig(k, u) : k \in { "hdrJpgUrl", "hdrUrl" }, u \in Urls }
  \cup { AtmosphericConfig(NoAtmospheric),
         AtmosphericConfig([ NoAtmospheric EXCEPT !.given = TRUE,
                                                  !.turbidity = 100,
                                                  !.rayleigh = 10 ]),
         AtmosphericConfig([ NoAtmospheric EXCEPT !.given = TRUE,
                                                  !.mieCoefficient = 5,
                                                  !.mieDirectionalG = 70,
                                                  !.sunPosition = << 0, 1000, 0 >> ]) }
  \cup { [ EmptyConfig EXCEPT !.skybox = [ NoSkybox EXCEPT !.given = TRUE,
                                                           !.intensity = 5,
                                                           !.blurriness = 1,
                                                           !.azimuthalAngle = 900,
                                                           !.polarAngle = 450 ] ],
         [ EmptyConfig EXCEPT !.sun.intensity = 5000,
                              !.sun.azimuthalAngle = 900,
                              !.sun.polarAngle = 600 ],
         [ EmptyConfig EXCEPT !.sun.polarAngle = 300 ],
         TrackingConfig("false", Absent, Absent),
         TrackingConfig("absent", 200, Absent),
         TrackingConfig("true", Absent, 20),
         TrackingConfig("absent", Absent, Absent),
         [ EmptyConfig EXCEPT !.envMapIntensity = 5,
                              !.fog = [ fogNear |-> 10, fogFar |-> 300,
                                        fogColor |-> << 2, 3, 4 >> ],
                              !.bloomIntensity = 20,
                              !.ambientLightIntensity = 5 ],
         [ EmptyConfig EXCEPT !.fog.fogFar = 0,
                              !.bloomIntensity = 0 ] }

\* ------------------------------------------------------------------------
\* State
\* ------------------------------------------------------------------------

VARIABLES
  environmentConfiguration, \* Composer.environmentConfiguration
  skyboxState,              \* Composer.skyboxState: src and latestPromise
  loads,                    \* the promises returned by loadHDRJPG / loadHDRi,
                            \* in the order they were created; a promise is
                            \* identified by its index
  scene,                    \* the lighting fields of the three.js Scene
  envValues,                \* environmentFolder.ts envValues (module global)
  sunValues,                \* environmentFolder.ts sunValues (module global)
  extrasBloom,              \* postExtrasFolder extrasValues.bloom
  bloomEffect,              \* Composer.bloomEffect (its intensity)
  ambientLight,             \* Composer.ambientLight
  sky,                      \* Composer.sky and the uniforms of its material
  sun,                      \* Composer.sun
  sunTracking,              \* sunTrackingEnabled / Speed / sunCycleDuration / sunStartTime
  passes,                   \* effectComposer.passes, in order
  passEnabled,              \* the enabled flag of every pass object
  renderer,                 \* the tone-mapping settings of the WebGLRenderer
                            \* and what the last frame was rendered through
  generator,                \* Composer.skyEnvironmentGenerator
  sizes,                    \* Composer.width / height / resolution and the
                            \* size last given to the renderer, the effect
                            \* composer and each pass
  window,                   \* whether this.resizeListener is registered for
                            \* the window's "resize" events
  now,                      \* the last frame time the frame driver supplied
  ops                       \* number of caller operations counted against
                            \* MaxOps so far

vars ==
  << environmentConfiguration, skyboxState, loads, scene, envValues,
     sunValues, extrasBloom, bloomEffect, ambientLight, sky, sun, sunTracking,
     passes, passEnabled, renderer, generator, sizes, window, now, ops >>

\* The handlers below are functions from world to world; a world is the record
\* of all the variables the composer's code reads and writes.
World ==
  [ environmentConfiguration |-> environmentConfiguration,
    skyboxState |-> skyboxState, loads |-> loads,
    scene |-> scene, envValues |-> envValues, sunValues |-> sunValues,
    extrasBloom |-> extrasBloom, bloomEffect |-> bloomEffect,
    ambientLight |-> ambientLight, sky |-> sky, sun |-> sun,
    sunTracking |-> sunTracking, passes |-> passes,
    passEnabled |-> passEnabled, renderer |-> renderer,
    generator |-> generator, sizes |-> sizes, window |-> window ]

\* the step that replaces the world by w
Becomes(w) ==
  /\ environmentConfiguration' = w.environmentConfiguration
  /\ skyboxState' = w.skyboxState
  /\ loads' = w.loads
  /\ scene' = w.scene
  /\ envValues' = w.envValues
  /\ sunValues' = w.sunValues
  /\ extrasBloom' = w.extrasBloom
  /\ bloomEffect' = w.bloomEffect
  /\ ambientLight' = w.ambientLight
  /\ sky' = w.sky
  /\ sun' = w.sun
  /\ sunTracking' = w.sunTracking
  /\ passes' = w.passes
  /\ passEnabled' = w.passEnabled
  /\ renderer' = w.renderer
  /\ generator' = w.generator
  /\ sizes' = w.sizes
  /\ window' = w.window

\* ------------------------------------------------------------------------
\* Textures, scene and module-global defaults
\* ------------------------------------------------------------------------

NullTexture == [ kind |-> "null", load |-> 0, url |-> NoUrl ]

\* the texture of the generator's cube render target
SkyMap == [ kind |-> "sky", load |-> 0, url |-> NoUrl ]

\* the pre-filtered map the decode of promise i resolves with; every decode
\* creates a new texture
PanoramaMap(i, url) == [ kind |-> "panorama", load |-> i, url |-> url ]

\* new Euler(degToRad(polar), degToRad(azimuthal), 0)
SkyboxEuler(ev) ==
  << DegToRad(ev.skyboxPolarAngle), DegToRad(ev.skyboxAzimuthalAngle), 0 >>

NoFog == [ on |-> FALSE, color |-> NoVector, near |-> 0, far |-> 0 ]

\* a three.js Scene as the caller hands it to the constructor
\* scene.children of the scene handed to the constructor: the application's
\* own objects, one shown and one hidden
ApplicationMembers ==
  << [ name |-> "avatar", visible |-> TRUE ],
     [ name |-> "helper", visible |-> FALSE ] >>

\* scene.remove(object)
SceneRemove(children, name) == SelectSeq(children, LAMBDA c : c.name # name)

\* scene.add(object) of a newly created object: new objects are visible
SceneAdd(children, name) ==
  Append(SceneRemove(children, name), [ name |-> name, visible |-> TRUE ])

NewScene ==
  [ children |-> ApplicationMembers,
    environment |-> NullTexture, background |-> NullTexture,
    environmentIntensity |-> 10, backgroundIntensity |-> 10,
    backgroundBlurriness |-> 0,
    environmentRotation |-> << 0, 0, 0 >>,
    backgroundRotation |-> << 0, 0, 0 >>,
    fog |-> NoFog ]

DefaultEnvValues ==
  [ skyboxAzimuthalAngle |-> 0, skyboxPolarAngle |-> 0,
    envMapIntensity |-> 10, skyboxIntensity |-> 10, skyboxBlurriness |-> 0,
    atmosphericSky |-> [ turbidity |-> 35, rayleigh |-> 25,
                         mieCoefficient |-> 8, mieDirectionalG |-> 85 ],
    ambientLight |-> [ ambientLightIntensity |-> 0,
                       ambientLightColor |-> << 10, 10, 10 >> ],
    fog |-> [ fogNear |-> 1000, fogFar |-> 1000, fogColor |-> << 7, 7, 7 >> ] ]

DefaultSunValues ==
  [ sunPosition |-> [ sunAzimuthalAngle |-> 2190, sunPolarAngle |-> 0 - 370 ],
    sunIntensity |-> 7200 ]

\* Sky.SkyShader.uniforms, cloned by the Sky constructor
DefaultSkyUniforms ==
  [ turbidity |-> 35, rayleigh |-> 25, mieCoefficient |-> 8,
    mieDirectionalG |-> 85, sunPosition |-> << 0, 0, 0 >> ]

NoSky == [ present |-> FALSE, uniforms |-> DefaultSkyUniforms ]

NoSunObject ==
  [ present |-> FALSE, azimuthalAngle |-> 0, polarAngle |-> 0, intensity |-> 0 ]

\* new Sun(): the sun object starts from the panel's sun values
NewSun(sv) ==
  [ present |-> TRUE,
    azimuthalAngle |-> DegToRad(sv.sunPosition.sunAzimuthalAngle),
    polarAngle |-> DegToRad(sv.sunPosition.sunPolarAngle),
    intensity |-> sv.sunIntensity ]

\* Sun.setAzimuthalAngle, Sun.setPolarAngle, Sun.setIntensity; the code calls
\* them as this.sun?.set...(), so they do nothing when there is no sun
SetAzimuthalAngle(s, rad) ==
  IF s.present THEN [ s EXCEPT !.azimuthalAngle = rad ] ELSE s

SetPolarAngle(s, rad) ==
  IF s.present THEN [ s EXCEPT !.polarAngle = rad ] ELSE s

SetIntensity(s, v) ==
  IF s.present THEN [ s EXCEPT !.intensity = v ] ELSE s

\* ------------------------------------------------------------------------
\* Composer: scalar parameters (fog, ambient light, skybox, bloom)
\* ------------------------------------------------------------------------

\* Composer.setFog
SetFog(w) ==
  IF w.envValues.fog.fogFar = 0
  THEN [ w EXCEPT !.scene.fog = NoFog ]
  ELSE [ w EXCEPT !.scene.fog = [ on |-> TRUE,
                                  color |-> w.envValues.fog.fogColor,
                                  near |-> w.envValues.fog.fogNear,
                                  far |-> w.envValues.fog.fogFar ] ]

\* Composer.setAmbientLight: the old light is removed and a new one added
SetAmbientLight(w) ==
  [ w EXCEPT !.scene.children = SceneAdd(@, "ambientLight"),
             !.ambientLight =
      [ present |-> TRUE,
        color |-> w.envValues.ambientLight.ambientLightColor,
        intensity |-> w.envValues.ambientLight.ambientLightIntensity ] ]

\* Composer.updateSkyboxRotation
UpdateSkyboxRotation(w) ==
  [ w EXCEPT !.scene.backgroundRotation = SkyboxEuler(w.envValues),
             !.scene.environmentRotation = SkyboxEuler(w.envValues) ]

\* Composer.updateFogValues
UpdateFogValues(w) ==
  LET f  == w.environmentConfiguration.fog
      w1 == IF f.fogNear # Absent
            THEN [ w EXCEPT !.envValues.fog.fogNear = f.fogNear ] ELSE w
      w2 == IF f.fogFar # Absent
            THEN [ w1 EXCEPT !.envValues.fog.fogFar = f.fogFar ] ELSE w1
      w3 == IF f.fogColor # NoVector
            THEN [ w2 EXCEPT !.envValues.fog.fogColor = f.fogColor ] ELSE w2
  IN  SetFog(w3)

\* Composer.updateSkyboxAndEnvValues
UpdateSkyboxAndEnvValues(w) ==
  LET c  == w.environmentConfiguration
      w1 == IF c.envMapIntensity # Absent
            THEN [ w EXCEPT !.envValues.envMapIntensity = c.envMapIntensity ]
            ELSE w
      w2 == [ w1 EXCEPT !.scene.environmentIntensity = w1.envValues.envMapIntensity ]
      w3 == IF c.skybox.intensity # Absent
            THEN [ w2 EXCEPT !.envValues.skyboxIntensity = c.skybox.intensity ]
            ELSE w2
      w4 == [ w3 EXCEPT !.scene.backgroundIntensity = w3.envValues.skyboxIntensity ]
      w5 == IF c.skybox.blurriness # Absent
            THEN [ w4 EXCEPT !.envValues.skyboxBlurriness = c.skybox.blurriness ]
            ELSE w4
      w6 == [ w5 EXCEPT !.scene.backgroundBlurriness = w5.envValues.skyboxBlurriness ]
      w7 == IF c.skybox.azimuthalAngle # Absent
            THEN UpdateSkyboxRotation(
                   [ w6 EXCEPT !.envValues.skyboxAzimuthalAngle = c.skybox.azimuthalAngle ])
            ELSE w6
  IN  IF c.skybox.polarAngle # Absent
      THEN UpdateSkyboxRotation(
             [ w7 EXCEPT !.envValues.skyboxPolarAngle = c.skybox.polarAngle ])
      ELSE w7

\* an updateBloomValues that falls back to the initial bloom when the
\* configuration gives none
UpdateBloomValuesResetting(w) ==
  LET b  == w.environmentConfiguration.bloomIntensity
      w1 == [ w EXCEPT !.extrasBloom = IF b # Absent THEN b ELSE 15 ]
  IN  [ w1 EXCEPT !.bloomEffect = [ intensity |-> w1.extrasBloom ] ]

\* Composer.updateBloomValues
UpdateBloomValues(w) ==
  LET b  == w.environmentConfiguration.bloomIntensity
      w1 == IF b # Absent THEN [ w EXCEPT !.extrasBloom = b ] ELSE w
  IN  [ w1 EXCEPT !.bloomEffect = [ intensity |-> w1.extrasBloom ] ]

\* Composer.updateAmbientLightValues
UpdateAmbientLightValues(w) ==
  LET a  == w.environmentConfiguration.ambientLightIntensity
      w1 == IF a # Absent
            THEN [ w EXCEPT !.envValues.ambientLight.ambientLightIntensity = a ]
            ELSE w
  IN  SetAmbientLight(w1)

\* ------------------------------------------------------------------------
\* Composer: panoramas
\* ------------------------------------------------------------------------

\* Composer.applyEnvMap
\* an applyEnvMap that stops after the environment
ApplyEnvMapEnvironmentOnly(w, envMap) ==
  [ w EXCEPT !.scene.environment = envMap,
             !.scene.environmentIntensity = w.envValues.envMapIntensity,
             !.scene.environmentRotation = SkyboxEuler(w.envValues) ]

\* an applyEnvMap that sets the background and leaves the environment
ApplyEnvMapBackgroundOnly(w, envMap) ==
  [ w EXCEPT !.scene.background = envMap,
             !.scene.backgroundIntensity = w.envValues.skyboxIntensity,
             !.scene.backgroundBlurriness = w.envValues.skyboxBlurriness,
             !.scene.backgroundRotation = SkyboxEuler(w.envValues) ]

ApplyEnvMap(w, envMap) ==
  [ w EXCEPT !.scene.environment = envMap,
             !.scene.environmentIntensity = w.envValues.envMapIntensity,
             !.scene.environmentRotation = SkyboxEuler(w.envValues),
             !.scene.background = envMap,
             !.scene.backgroundIntensity = w.envValues.skyboxIntensity,
             !.scene.backgroundBlurriness = w.envValues.skyboxBlurriness,
             !.scene.backgroundRotation = SkyboxEuler(w.envValues) ]

\* the promises that are unsettled when a new one is created
PendingLoads(ls) == { i \in 1..Len(ls) : ls[i].status = "pending" }

\* loadHDRJPG / loadHDRi: a new promise whose decode has been started.
\* status: "pending", "fulfilled" (resolve(envMap) ran), "rejected"
\* (reject("Failed to generate environment map") ran) or "failed" (the loader
\* could not fetch or decode the image: no onError callback is passed to
\* load(), so the promise stays unsettled for ever).
\* reported: whether the failure of this load was signalled to the caller.
\* overlap: the earlier promises that were pending when this one was created.
NewLoad(ls, loader, url) ==
  [ loader |-> loader, url |-> url, status |-> "pending", reported |-> FALSE,
    overlap |-> PendingLoads(ls) ]

\* a useHDRJPG without the early return on an unchanged URL
UseHDRJPGAlways(w, url) ==
  [ w EXCEPT
      !.loads = Append(@, NewLoad(w.loads, "HDRJPGLoader", url)),
      !.skyboxState = [ src |-> [ hdrJpgUrl |-> url, hdrUrl |-> NoUrl ],
                        latestPromise |-> Len(w.loads) + 1 ] ]

\* Composer.useHDRJPG
UseHDRJPG(w, url) ==
  IF w.skyboxState.src.hdrJpgUrl = url
  THEN w
  ELSE [ w EXCEPT
           !.loads = Append(@, NewLoad(w.loads, "HDRJPGLoader", url)),
           !.skyboxState = [ src |-> [ hdrJpgUrl |-> url, hdrUrl |-> NoUrl ],
                             latestPromise |-> Len(w.loads) + 1 ] ]

\* a useHDRI without the early return on an unchanged URL
UseHDRIAlways(w, url) ==
  [ w EXCEPT
      !.loads = Append(@, NewLoad(w.loads, "RGBELoader", url)),
      !.skyboxState = [ src |-> [ hdrJpgUrl |-> NoUrl, hdrUrl |-> url ],
                        latestPromise |-> Len(w.loads) + 1 ] ]

\* a useHDRI that does not record its promise as the latest
UseHDRIUnrecorded(w, url) ==
  IF w.skyboxState.src.hdrUrl = url
  THEN w
  ELSE [ w EXCEPT
           !.loads = Append(@, NewLoad(w.loads, "RGBELoader", url)),
           !.skyboxState.src = [ hdrJpgUrl |-> NoUrl, hdrUrl |-> url ] ]

\* Composer.useHDRI
UseHDRI(w, url) ==
  IF w.skyboxState.src.hdrUrl = url
  THEN w
  ELSE [ w EXCEPT
           !.loads = Append(@, NewLoad(w.loads, "RGBELoader", url)),
           !.skyboxState = [ src |-> [ hdrJpgUrl |-> NoUrl, hdrUrl |-> url ],
                             latestPromise |-> Len(w.loads) + 1 ] ]

\* a .then() callback without the latestPromise comparison
OnLoadedUnguarded(w, i) ==
  ApplyEnvMap([ w EXCEPT !.loads[i].status = "fulfilled" ],
              PanoramaMap(i, w.loads[i].url))

\* a .then() callback that applies a superseded map to the environment only
OnLoadedEnvironmentOnly(w, i) ==
  LET settled == [ w EXCEPT !.loads[i].status = "fulfilled" ]
  IN  IF w.skyboxState.latestPromise # i
      THEN [ settled EXCEPT !.scene.environment = PanoramaMap(i, w.loads[i].url) ]
      ELSE ApplyEnvMap(settled, PanoramaMap(i, w.loads[i].url))

\* a callback that waits for the earlier decodes: the map is applied only
\* when no load issued before this one is still pending
OnLoadedAfterEarlier(w, i) ==
  LET settled == [ w EXCEPT !.loads[i].status = "fulfilled" ]
  IN  IF w.skyboxState.latestPromise # i
         \/ \E h \in PendingLoads(w.loads) : h < i
      THEN settled
      ELSE ApplyEnvMap(settled, PanoramaMap(i, w.loads[i].url))

\* the .then() callback of useHDRJPG / useHDRI, run when promise i is
\* fulfilled with its map
OnLoaded(w, i) ==
  LET settled == [ w EXCEPT !.loads[i].status = "fulfilled" ]
  IN  IF w.skyboxState.latestPromise # i
      THEN settled
      ELSE ApplyEnvMap(settled, PanoramaMap(i, w.loads[i].url))

\* the promise of load i is rejected (fromEquirectangular gave no texture):
\* the .then() callback has no rejection handler and nothing else observes
\* the promise
OnRejected(w, i) == [ w EXCEPT !.loads[i].status = "rejected" ]

\* the loader fails to fetch or decode the image of load i
OnLoaderError(w, i) == [ w EXCEPT !.loads[i].status = "failed" ]

\* ------------------------------------------------------------------------
\* Composer: atmospheric sky and sun
\* ------------------------------------------------------------------------

\* new SkyEnvironmentGenerator(renderer): no render target yet.
\* renderTarget: the edge size of the cube render target, 0 when there is none;
\* seen: the scene children that were visible when the cube camera last
\* rendered
\* renderTarget is the width of this.renderTarget (0 for null); created counts
\* the WebGLCubeRenderTargets constructed so far, the current one being the
\* last; live holds those on which dispose() has not been called
NewGenerator == [ renderTarget |-> 0, seen |-> { }, created |-> 0, live |-> { } ]

\* the edge size generateEnvironmentMap is called with
CubeSize == 512

\* generateEnvironmentMap, first forEach: originalVisible[index] for every
\* child but the sky, and every such child hidden
OriginalVisible(children) ==
  [ i \in { j \in 1..Len(children) : children[j].name # "sky" } |->
      children[i].visible ]

\* a first forEach that hides the application's members but not the lights
HideMeshesOnly(children) ==
  [ i \in 1..Len(children) |->
      IF children[i].name \notin { "sky", "ambientLight", "sun" }
      THEN [ children[i] EXCEPT !.visible = FALSE ]
      ELSE children[i] ]

HideAllButSky(children) ==
  [ i \in 1..Len(children) |->
      IF children[i].name # "sky"
      THEN [ children[i] EXCEPT !.visible = FALSE ]
      ELSE children[i] ]

\* a second forEach that shows every child it had hidden
RestoreVisibleShown(children, originalVisible) ==
  [ i \in 1..Len(children) |->
      IF children[i].name # "sky" /\ i \in DOMAIN originalVisible
      THEN [ children[i] EXCEPT !.visible = TRUE ]
      ELSE children[i] ]

\* generateEnvironmentMap, second forEach
RestoreVisible(children, originalVisible) ==
  [ i \in 1..Len(children) |->
      IF children[i].name # "sky" /\ i \in DOMAIN originalVisible
      THEN [ children[i] EXCEPT !.visible = originalVisible[i] ]
      ELSE children[i] ]

VisibleNames(children) ==
  { children[i].name : i \in { j \in 1..Len(children) : children[j].visible } }

\* a target creation that drops the old target without disposing it
EnsureRenderTargetLeaking(g, size) ==
  IF g.renderTarget = 0 \/ g.renderTarget # size
  THEN [ g EXCEPT !.renderTarget = size, !.created = @ + 1,
                  !.live = @ \cup { g.created + 1 } ]
  ELSE g

\* generateEnvironmentMap, "create render target if it doesn't exist or size
\* changed"
EnsureRenderTarget(g, size) ==
  IF g.renderTarget = 0 \/ g.renderTarget # size
  THEN LET disposed == IF g.renderTarget # 0 THEN g.live \ { g.created }
                                             ELSE g.live
       IN  [ g EXCEPT !.renderTarget = size, !.created = @ + 1,
                      !.live = disposed \cup { g.created + 1 } ]
  ELSE g

\* SkyEnvironmentGenerator.generateEnvironmentMap up to and including
\* cubeCamera.update(renderer, scene)
GeneratorRenderSized(w, size) ==
  LET hidden == HideAllButSky(w.scene.children)
  IN  [ w EXCEPT !.generator =
                    [ EnsureRenderTarget(w.generator, size) EXCEPT
                        !.seen = VisibleNames(hidden) ],
                 !.scene.children = hidden ]

\* the call the composer makes: the size is left to its default
GeneratorRender(w) == GeneratorRenderSized(w, CubeSize)

\* SkyEnvironmentGenerator.generateEnvironmentMap when the render returns
RunGeneratorSized(w, size) ==
  [ GeneratorRenderSized(w, size) EXCEPT
      !.scene.children =
         RestoreVisible(@, OriginalVisible(w.scene.children)) ]

RunGenerator(w) == RunGeneratorSized(w, CubeSize)

\* SkyEnvironmentGenerator.generateEnvironmentMap when cubeCamera.update
\* throws: the statements after it do not run
RunGeneratorThrowing(w) == GeneratorRender(w)

\* SkyEnvironmentGenerator.dispose: the target is disposed, the reference to
\* it is kept
GeneratorDispose(g) ==
  IF g.renderTarget # 0 THEN [ g EXCEPT !.live = @ \ { g.created } ] ELSE g

\* SkyEnvironmentGenerator.generateEnvironmentMap: the texture of the cube
\* render target the sky was rendered into
GenerateEnvironmentMap(w) == SkyMap

\* the sun position the sky shader is given: "the EXACT same calculation as
\* the Sun class", from the panel's sun values
SunPositionFromValues(sv) ==
  SunDirection(sv.sunPosition.sunAzimuthalAngle, sv.sunPosition.sunPolarAngle)

\* coefficients that ignore the panel values and start from the defaults
DefaultCoefficients(w) == DefaultEnvValues.atmosphericSky

\* the coefficients updateAtmosphericSky starts from: the panel values
PanelCoefficients(w) == w.envValues.atmosphericSky

\* Composer.updateAtmosphericSky up to the call of the generator: the
\* uniforms of the sky and the panel values
SetSkyParameters(w) ==
    LET c   == w.environmentConfiguration.skybox
        atm == c.atmospheric
        use == c.given /\ c.source = "atmospheric" /\ atm.given
        ev  == PanelCoefficients(w)
        \* sky parameters from the panel values ...
        u0  == [ w.sky.uniforms EXCEPT !.turbidity = ev.turbidity,
                                       !.rayleigh = ev.rayleigh,
                                       !.mieCoefficient = ev.mieCoefficient,
                                       !.mieDirectionalG = ev.mieDirectionalG ]
        \* ... then from the configuration, which also writes the panel values
        t   == IF use /\ atm.turbidity # Absent THEN atm.turbidity ELSE ev.turbidity
        r   == IF use /\ atm.rayleigh # Absent THEN atm.rayleigh ELSE ev.rayleigh
        m   == IF use /\ atm.mieCoefficient # Absent
               THEN atm.mieCoefficient ELSE ev.mieCoefficient
        g   == IF use /\ atm.mieDirectionalG # Absent
               THEN atm.mieDirectionalG ELSE ev.mieDirectionalG
        p1  == IF use /\ atm.sunPosition # NoVector
               THEN atm.sunPosition ELSE u0.sunPosition
        \* sync the sun position with the sky if a sun exists
        p2  == IF w.sun.present THEN SunPositionFromValues(w.sunValues) ELSE p1
        u   == [ turbidity |-> t, rayleigh |-> r, mieCoefficient |-> m,
                 mieDirectionalG |-> g, sunPosition |-> p2 ]
    IN  [ w EXCEPT !.sky.uniforms = u,
                   !.envValues.atmosphericSky =
                      [ turbidity |-> t, rayleigh |-> r,
                        mieCoefficient |-> m, mieDirectionalG |-> g ] ]

\* Composer.updateAtmosphericSky when the generator's render throws: the
\* exception leaves the method before the environment is applied
UpdateAtmosphericSkyThrowing(w) ==
  IF ~w.sky.present
  THEN w
  ELSE RunGeneratorThrowing(SetSkyParameters(w))

\* an updateAtmosphericSky that applies the generated map as the environment
\* and leaves the background texture it finds
UpdateAtmosphericSkyKeepingBackground(w) ==
  IF ~w.sky.present
  THEN w
  ELSE
    LET w1 == RunGenerator(SetSkyParameters(w))
    IN  [ w1 EXCEPT !.scene.environment = GenerateEnvironmentMap(w1),
                    !.scene.environmentIntensity = w1.envValues.envMapIntensity,
                    !.scene.environmentRotation = SkyboxEuler(w1.envValues) ]

\* Composer.updateAtmosphericSky
UpdateAtmosphericSky(w) ==
  IF ~w.sky.present
  THEN w
  ELSE
    LET w1     == RunGenerator(SetSkyParameters(w))
        envMap == GenerateEnvironmentMap(w1)
    IN  [ w1 EXCEPT !.scene.environment = envMap,
                    !.scene.environmentIntensity = w1.envValues.envMapIntensity,
                    !.scene.environmentRotation = SkyboxEuler(w1.envValues),
                    !.scene.background = NullTexture,
                    !.scene.backgroundIntensity = w1.envValues.skyboxIntensity,
                    !.scene.backgroundBlurriness = w1.envValues.skyboxBlurriness,
                    !.scene.backgroundRotation = SkyboxEuler(w1.envValues) ]

\* the atmospheric folder's change handler when the generator's render throws:
\* the panel value is written, updateAtmosphericSky is left at the throw
PanelAtmosphericChangeThrowing(w, key, value) ==
  UpdateAtmosphericSkyThrowing(
    [ w EXCEPT !.envValues.atmosphericSky[key] = value ])

\* the application owns the scene it hands to the composer and may show or
\* hide any of its members
SetVisible(w, index, visible) ==
  [ w EXCEPT !.scene.children[index].visible = visible ]

\* Composer.initializeAtmosphericSky
InitializeAtmosphericSky(w) ==
  UpdateAtmosphericSky(
    [ w EXCEPT !.scene.children = SceneAdd(@, "sky"),
               !.sky = [ present |-> TRUE,
                         uniforms |-> [ DefaultSkyUniforms EXCEPT
                                          !.turbidity = 35,
                                          !.rayleigh = 25,
                                          !.mieCoefficient = 8,
                                          !.mieDirectionalG = 85 ] ] ])

\* Composer.syncSunWithSky
SyncSunWithSky(w) ==
  IF ~w.sky.present \/ ~w.sun.present
  THEN w
  ELSE UpdateAtmosphericSky(
         [ w EXCEPT !.sky.uniforms.sunPosition = SunPositionFromValues(w.sunValues) ])

\* an enableSunTracking without the test for a sun
EnableSunTrackingUnguarded(w, speed, cycleDuration) ==
  [ w EXCEPT !.sunTracking = [ enabled |-> TRUE, speed |-> speed,
                               cycleDuration |-> cycleDuration,
                               startTime |-> 0 ] ]

\* Composer.enableSunTracking
EnableSunTracking(w, speed, cycleDuration) ==
  IF ~w.sun.present
  THEN w
  ELSE [ w EXCEPT !.sunTracking = [ enabled |-> TRUE, speed |-> speed,
                                    cycleDuration |-> cycleDuration,
                                    startTime |-> 0 ] ]

\* Composer.disableSunTracking
DisableSunTracking(w) == [ w EXCEPT !.sunTracking.enabled = FALSE ]

\* Composer.updateSunValues
UpdateSunValues(w) ==
  LET c  == w.environmentConfiguration.sun
      w1 == IF c.intensity # Absent
            THEN [ w EXCEPT !.sunValues.sunIntensity = c.intensity,
                            !.sun = SetIntensity(@, c.intensity) ]
            ELSE w
      w2 == IF c.azimuthalAngle # Absent
            THEN [ w1 EXCEPT
                     !.sunValues.sunPosition.sunAzimuthalAngle = c.azimuthalAngle,
                     !.sun = SetAzimuthalAngle(@, DegToRad(c.azimuthalAngle)) ]
            ELSE w1
      w3 == IF c.polarAngle # Absent
            THEN [ w2 EXCEPT
                     !.sunValues.sunPosition.sunPolarAngle = c.polarAngle,
                     !.sun = SetPolarAngle(@, DegToRad(c.polarAngle)) ]
            ELSE w2
      tr == c.tracking
  IN  IF w3.sun.present /\ tr.given
      THEN IF tr.enabled = "false"
           THEN DisableSunTracking(w3)
           ELSE IF tr.enabled = "true" \/ tr.speed # Absent
                   \/ tr.cycleDuration # Absent
                THEN EnableSunTracking(
                       w3,
                       IF tr.speed # Absent THEN tr.speed
                       ELSE w3.sunTracking.speed,
                       IF tr.cycleDuration # Absent THEN tr.cycleDuration
                       ELSE w3.sunTracking.cycleDuration)
                ELSE w3
      ELSE w3

\* ------------------------------------------------------------------------
\* Composer: sun tracking
\* ------------------------------------------------------------------------

\* this.sunStartTime = 50 on the first update
FirstStartTime == 50

\* elapsedTime = (currentTime - sunStartTime) * 0.2, that is, divided by 5
ElapsedDivisor == 5

MinPolarAngle == 500

MaxPolarAngle == 1100

FadeStartAngle == 750

FadeEndAngle == 950

\* cycleProgress * 360 degrees, in deci-degrees:
\* ((elapsedTime % sunCycleDuration) / sunCycleDuration) * 3600
CyclePhase(currentTime, startTime, cycleDuration) ==
  TruncDiv(JsMod(currentTime - startTime, ElapsedDivisor * cycleDuration)
             * (3600 \div ElapsedDivisor),
           cycleDuration)

\* azimuthalAngle = 90 + cycleProgress * 360
TrackedAzimuth(phase) == 900 + phase

\* polarAngle = polarAngleCenter - cos(cycleProgress * 2 PI) * (polarAngleRange / 2)
TrackedPolar(phase) ==
  LET polarAngleRange  == MaxPolarAngle - MinPolarAngle
      polarAngleCenter == (MinPolarAngle + MaxPolarAngle) \div 2
  IN  polarAngleCenter - TruncDiv(Cos1000(phase) * (polarAngleRange \div 2), 1000)

\* an intensity that is already dark at the fade-start angle
TrackedIntensityEarly(polarAngle, baseSunIntensity) ==
  IF polarAngle < FadeStartAngle THEN baseSunIntensity ELSE 0

\* the intensity of the tracked sun at a polar angle
TrackedIntensity(polarAngle, baseSunIntensity) ==
  IF polarAngle <= FadeStartAngle
  THEN baseSunIntensity
  ELSE IF polarAngle >= FadeEndAngle
       THEN 0
       ELSE LET fadeAngle  == TruncDiv((polarAngle - FadeStartAngle) * 1800,
                                       FadeEndAngle - FadeStartAngle)
                fadeFactor == (Cos1000(fadeAngle) + 1000) \div 2
            IN  TruncDiv(baseSunIntensity * fadeFactor, 1000)

\* an advance that also stops the tracking
UpdateSunTrackingStopping(w, currentTime) ==
  [ w EXCEPT !.sunTracking.enabled = FALSE,
             !.sunTracking.startTime = FirstStartTime ]

\* Composer.updateSunTracking
UpdateSunTracking(w, currentTime) ==
  IF ~w.sun.present
  THEN w
  ELSE
    LET start == IF w.sunTracking.startTime = 0
                 THEN FirstStartTime ELSE w.sunTracking.startTime
        phase == CyclePhase(currentTime, start, w.sunTracking.cycleDuration)
        azimuthalAngle == TrackedAzimuth(phase)
        polarAngle == TrackedPolar(phase)
        base  == IF w.environmentConfiguration.sun.intensity # Absent
                 THEN w.environmentConfiguration.sun.intensity
                 ELSE w.sunValues.sunIntensity
        sunIntensity == TrackedIntensity(polarAngle, base)
        w1    == [ w EXCEPT
                     !.sunTracking.startTime = start,
                     !.sunValues.sunPosition.sunAzimuthalAngle =
                        JsMod(azimuthalAngle, 3600),
                     !.sunValues.sunPosition.sunPolarAngle = polarAngle,
                     !.sun = SetIntensity(
                               SetPolarAngle(
                                 SetAzimuthalAngle(
                                   @, DegToRad(JsMod(azimuthalAngle, 3600))),
                                 DegToRad(polarAngle)),
                               sunIntensity) ]
    IN  SyncSunWithSky(w1)

\* ------------------------------------------------------------------------
\* Composer: construction, configuration update, frames
\* ------------------------------------------------------------------------

NoAmbientLight == [ present |-> FALSE, color |-> NoVector, intensity |-> 0 ]

\* the pass objects the constructor creates; smaaPass is created but never added
PassNames ==
  { "renderPass", "normalPass", "ppssaoPass", "n8aopass", "fxaaPass",
    "smaaPass", "bloomPass", "toneMappingPass", "bcsPass", "gaussGrainPass" }

\* effectComposer.addPass
AddPass(w, pass) == [ w EXCEPT !.passes = Append(@, pass) ]

\* a size nothing has set yet (the library's own default)
Unsized == << 0, 0 >>

\* width = height = 1, resolution = Vector2(1, 1), renderer.setSize(1, 1) and
\* new N8AOPostPass(scene, camera, width, height)
NewSizes ==
  [ width |-> 1, height |-> 1, aspect |-> Unsized, pixelRatio |-> 1,
    resolution |-> << 1, 1 >>, effectComposer |-> Unsized,
    pass |-> [ p \in PassNames |-> IF p = "n8aopass" THEN << 1, 1 >> ELSE Unsized ],
    normalTextureEffect |-> Unsized, grainResolution |-> Unsized,
    renderer |-> << 1, 1 >> ]

\* renderer.domElement.parentNode is null: the canvas is not in the document
NoParent == << >>

\* a fitContainer whose passes never shrink: each keeps the larger of its
\* old and its new size
FitContainerGrowing(w, parent, devicePixelRatio) ==
  IF parent = NoParent
  THEN w
  ELSE
    LET size == << parent[1], parent[2] >>
        Larger(old) == IF old # Unsized /\ old[1] > size[1] THEN old ELSE size
    IN  [ w EXCEPT
            !.sizes =
               [ width |-> parent[1], height |-> parent[2],
                 aspect |-> size,
                 pixelRatio |-> devicePixelRatio,
                 resolution |-> << parent[1] * devicePixelRatio,
                                   parent[2] * devicePixelRatio >>,
                 effectComposer |-> << parent[1] \div devicePixelRatio,
                                       parent[2] \div devicePixelRatio >>,
                 pass |-> [ p \in PassNames |-> Larger(w.sizes.pass[p]) ],
                 normalTextureEffect |-> size,
                 grainResolution |-> size,
                 renderer |-> size ] ]

\* Composer.fitContainer.  parent: << clientWidth, clientHeight >> of the
\* canvas's parent, or NoParent; devicePixelRatio: window.devicePixelRatio.
\* The widths and heights used are multiples of the pixel ratio, so the
\* quotients are exact.
FitContainer(w, parent, devicePixelRatio) ==
  IF parent = NoParent
  THEN w
  ELSE
    LET width  == parent[1]
        height == parent[2]
        size   == << width, height >>
        ppssao == w.passEnabled["ppssaoPass"]
        n8ssao == w.passEnabled["n8aopass"]
    IN  [ w EXCEPT
            !.sizes =
               [ width |-> width, height |-> height,
                 aspect |-> size,
                 pixelRatio |-> devicePixelRatio,
                 resolution |-> << width * devicePixelRatio,
                                   height * devicePixelRatio >>,
                 effectComposer |-> << width \div devicePixelRatio,
                                       height \div devicePixelRatio >>,
                 pass |-> [ p \in PassNames |->
                              CASE p = "bcsPass" -> w.sizes.pass[p]
                                [] p \in { "normalPass", "ppssaoPass" } ->
                                     IF ppssao THEN size ELSE w.sizes.pass[p]
                                [] p = "n8aopass" ->
                                     IF n8ssao THEN size ELSE w.sizes.pass[p]
                                [] OTHER -> size ],
                 normalTextureEffect |->
                    IF ppssao THEN size ELSE w.sizes.normalTextureEffect,
                 grainResolution |-> size,
                 renderer |-> size ] ]

\* the field initialisers of the class and the module globals the constructor
\* starts from.  ppssao, n8ssao: ppssaoValues.enabled, n8ssaoValues.enabled;
\* toneMapped: rendererValues.toneMapping is 5 or 0; bloom: extrasValues.bloom
FieldInitialisers(config, ppssao, n8ssao, toneMapped, bloom) ==
  [ environmentConfiguration |-> config,
    skyboxState |-> [ src |-> [ hdrJpgUrl |-> NoUrl, hdrUrl |-> NoUrl ],
                      latestPromise |-> 0 ],
    loads |-> << >>,
    scene |-> NewScene,
    envValues |-> DefaultEnvValues,
    sunValues |-> DefaultSunValues,
    extrasBloom |-> bloom,
    bloomEffect |-> [ intensity |-> bloom ],
    ambientLight |-> NoAmbientLight,
    sky |-> NoSky,
    sun |-> NoSunObject,
    sunTracking |-> [ enabled |-> FALSE, speed |-> 1, cycleDuration |-> 30,
                      startTime |-> 0 ],
    passes |-> << >>,
    passEnabled |-> [ p \in PassNames |->
                        CASE p \in { "normalPass", "ppssaoPass" } -> ppssao
                          [] p = "n8aopass" -> n8ssao
                          [] p = "toneMappingPass" -> toneMapped
                          [] OTHER -> TRUE ],
    renderer |-> [ toneMapping |-> "rendererValues.toneMapping",
                   toneMappingExposure |-> "rendererValues.exposure",
                   frames |-> FALSE, passesRun |-> << >>,
                   disposed |-> FALSE ],
    generator |-> NewGenerator,
    sizes |-> NewSizes,
    window |-> [ resizeListener |-> FALSE ] ]

\* the part of both the constructor and updateEnvironmentConfiguration that
\* selects the skybox source
SelectSkybox(w) ==
  LET sb == w.environmentConfiguration.skybox
  IN  IF sb.given
      THEN CASE sb.source = "hdrJpgUrl" -> UseHDRJPG(w, sb.url)
             [] sb.source = "hdrUrl" -> UseHDRI(w, sb.url)
             [] sb.source = "atmospheric" -> UpdateAtmosphericSky(w)
             [] OTHER -> w
      ELSE UpdateAtmosphericSky(w)

\* a constructor that adds the ambient-occlusion passes after the anti-alias
\* pass
ConstructorAddPassesLate(w, ppssao, n8ssao) ==
  LET p1 == AddPass(AddPass(w, "renderPass"), "fxaaPass")
      p2 == IF ppssao THEN AddPass(AddPass(p1, "normalPass"), "ppssaoPass") ELSE p1
      p3 == IF n8ssao THEN AddPass(p2, "n8aopass") ELSE p2
      p5 == AddPass(p3, "bloomPass")
      p6 == AddPass(p5, "toneMappingPass")
      p7 == AddPass(p6, "bcsPass")
  IN  AddPass(p7, "gaussGrainPass")

\* the order in which the constructor adds the passes
ConstructorAddPasses(w, ppssao, n8ssao) ==
  LET p1 == AddPass(w, "renderPass")
      p2 == IF ppssao THEN AddPass(AddPass(p1, "normalPass"), "ppssaoPass") ELSE p1
      p3 == IF n8ssao THEN AddPass(p2, "n8aopass") ELSE p2
      p4 == AddPass(p3, "fxaaPass")
      p5 == AddPass(p4, "bloomPass")
      p6 == AddPass(p5, "toneMappingPass")
      p7 == AddPass(p6, "bcsPass")
  IN  AddPass(p7, "gaussGrainPass")

\* a constructor that leaves the tracker's speed and cycle duration at the
\* values of the field initialisers when the configuration gives none
ConstructorSpawnSunFieldDefaults(w, spawnSun) ==
  IF spawnSun
  THEN LET tr == w.environmentConfiguration.sun.tracking
           ws == [ w EXCEPT !.sun = NewSun(w.sunValues),
                            !.scene.children = SceneAdd(@, "sun") ]
       IN  IF ~(tr.given /\ tr.enabled = "false")
           THEN EnableSunTracking(
                  ws,
                  IF tr.given /\ tr.speed # Absent
                  THEN tr.speed ELSE w.sunTracking.speed,
                  IF tr.given /\ tr.cycleDuration # Absent
                  THEN tr.cycleDuration ELSE w.sunTracking.cycleDuration)
           ELSE ws
  ELSE w

\* the sun and its tracking as the constructor sets them up
ConstructorSpawnSun(w, spawnSun) ==
  IF spawnSun
  THEN LET tr == w.environmentConfiguration.sun.tracking
           ws == [ w EXCEPT !.sun = NewSun(w.sunValues),
                            !.scene.children = SceneAdd(@, "sun") ]
       IN  IF ~(tr.given /\ tr.enabled = "false")
           THEN EnableSunTracking(
                  ws,
                  IF tr.given /\ tr.speed # Absent THEN tr.speed ELSE 100,
                  IF tr.given /\ tr.cycleDuration # Absent
                  THEN tr.cycleDuration ELSE 10)
           ELSE ws
  ELSE w

\* Composer.constructor
Constructor(config, spawnSun, ppssao, n8ssao, toneMapped, bloom) ==
  LET w0 == FieldInitialisers(config, ppssao, n8ssao, toneMapped, bloom)
      \* if (environmentConfiguration?.postProcessing?.bloomIntensity): truthy
      w1 == IF config.bloomIntensity # Absent /\ config.bloomIntensity # 0
            THEN [ w0 EXCEPT !.extrasBloom = config.bloomIntensity ] ELSE w0
      w2 == UpdateFogValues(UpdateAmbientLightValues(UpdateSkyboxAndEnvValues(w1)))
      w3 == [ w2 EXCEPT !.bloomEffect = [ intensity |-> w2.extrasBloom ] ]
      w4 == ConstructorAddPasses(w3, ppssao, n8ssao)
      w5 == ConstructorSpawnSun(w4, spawnSun)
      w6 == InitializeAtmosphericSky(w5)
      w7 == SelectSkybox(w6)
      w8 == UpdateSunValues(w7)
      \* window.addEventListener("resize", this.resizeListener, false)
      w9 == [ w8 EXCEPT !.window.resizeListener = TRUE ]
  \* the canvas was created by this constructor and is in no document yet
  IN  FitContainer(w9, NoParent, 1)

\* Composer.updateEnvironmentConfiguration
UpdateEnvironmentConfiguration(w, config) ==
  LET w1 == SelectSkybox([ w EXCEPT !.environmentConfiguration = config ])
      w2 == UpdateSkyboxAndEnvValues(w1)
      w3 == UpdateAmbientLightValues(w2)
      w4 == UpdateBloomValues(w3)
      w5 == UpdateSunValues(w4)
  IN  UpdateFogValues(w5)

\* a dispose that registers the listener again when it finds it removed
DisposeToggling(w) ==
  [ w EXCEPT !.window.resizeListener = ~@,
             !.generator = GeneratorDispose(@),
             !.scene.children = IF w.sky.present THEN SceneRemove(@, "sky") ELSE @,
             !.renderer.disposed = TRUE ]

\* Composer.dispose
Dispose(w) ==
  [ w EXCEPT !.window.resizeListener = FALSE,
             !.generator = GeneratorDispose(@),
             !.scene.children = IF w.sky.present THEN SceneRemove(@, "sky") ELSE @,
             !.renderer.disposed = TRUE ]

\* the resources on which dispose() calls a release: the generator's render
\* target when there is one, and the renderer
ReleasedByDispose(w) ==
  (IF w.generator.renderTarget # 0 THEN { "renderTarget" } ELSE { })
    \cup { "renderer" }

\* the resources of world w that have been released
Released(w) ==
  (IF w.generator.renderTarget # 0 /\ w.generator.created \notin w.generator.live
   THEN { "renderTarget" } ELSE { })
    \cup (IF w.renderer.disposed THEN { "renderer" } ELSE { })

\* Composer.render
Render(w, time) ==
  LET w1 == IF w.sunTracking.enabled /\ w.sun.present
            THEN UpdateSunTracking(w, time) ELSE w
  \* this.renderer.render(scene, camera): the frame is drawn by the renderer
  \* itself; effectComposer.render() is commented out, so no pass runs
  IN  [ w1 EXCEPT
          !.renderer = [ @ EXCEPT !.toneMapping = "ACESFilmicToneMapping",
                                  !.toneMappingExposure = "0.15",
                                  !.frames = TRUE,
                                  !.passesRun = << >> ] ]

\* ------------------------------------------------------------------------
\* Debug panel: EnvironmentFolder.setupChangeEvent and the callbacks
\* Composer.setupTweakPane hands to it.  The panel's binding has written the
\* new value into sunValues / envValues before the change handler runs.
\* ------------------------------------------------------------------------

\* this.sun.on("change", ...)
PanelSunChange(w, key, value) ==
  CASE key = "sunAzimuthalAngle" ->
         SyncSunWithSky(
           [ w EXCEPT !.sunValues.sunPosition.sunAzimuthalAngle = value,
                      !.sun = SetAzimuthalAngle(@, DegToRad(value)) ])
    [] key = "sunPolarAngle" ->
         SyncSunWithSky(
           [ w EXCEPT !.sunValues.sunPosition.sunPolarAngle = value,
                      !.sun = SetPolarAngle(@, DegToRad(value)) ])
    [] key = "sunIntensity" ->
         [ w EXCEPT !.sunValues.sunIntensity = value,
                    !.sun = SetIntensity(@, value) ]

\* this.envMap.on("change", ...) and this.skybox.on("change", ...)
PanelSkyboxChange(w, key, value) ==
  CASE key = "envMapIntensity" ->
         [ w EXCEPT !.envValues.envMapIntensity = value,
                    !.scene.environmentIntensity = value ]
    [] key = "skyboxAzimuthalAngle" ->
         UpdateSkyboxRotation([ w EXCEPT !.envValues.skyboxAzimuthalAngle = value ])
    [] key = "skyboxPolarAngle" ->
         UpdateSkyboxRotation([ w EXCEPT !.envValues.skyboxPolarAngle = value ])
    [] key = "skyboxIntensity" ->
         [ w EXCEPT !.envValues.skyboxIntensity = value,
                    !.scene.backgroundIntensity = value ]
    [] key = "skyboxBlurriness" ->
         [ w EXCEPT !.envValues.skyboxBlurriness = value,
                    !.scene.backgroundBlurriness = value ]

\* this.ambient.on("change", ...) and this.fog.on("change", ...)
PanelAmbientFogChange(w, key, value) ==
  CASE key = "ambientLightIntensity" ->
         SetAmbientLight([ w EXCEPT !.envValues.ambientLight.ambientLightIntensity = value ])
    [] key = "fogNear" -> SetFog([ w EXCEPT !.envValues.fog.fogNear = value ])
    [] key = "fogFar" -> SetFog([ w EXCEPT !.envValues.fog.fogFar = value ])

\* this.atmosphericSky.on("change", ...)
PanelAtmosphericChange(w, key, value) ==
  UpdateAtmosphericSky([ w EXCEPT !.envValues.atmosphericSky[key] = value ])

\* ------------------------------------------------------------------------
\* Steps.  Each takes the set its input is drawn from; the specifications
\* below instantiate them.
\* ------------------------------------------------------------------------

\* the state is the world w
Is(w) ==
  /\ environmentConfiguration = w.environmentConfiguration
  /\ skyboxState = w.skyboxState
  /\ loads = w.loads
  /\ scene = w.scene
  /\ envValues = w.envValues
  /\ sunValues = w.sunValues
  /\ extrasBloom = w.extrasBloom
  /\ bloomEffect = w.bloomEffect
  /\ ambientLight = w.ambientLight
  /\ sky = w.sky
  /\ sun = w.sun
  /\ sunTracking = w.sunTracking
  /\ passes = w.passes
  /\ passEnabled = w.passEnabled
  /\ renderer = w.renderer
  /\ generator = w.generator
  /\ sizes = w.sizes
  /\ window = w.window

WithinLoadBounds(w) == Len(w.loads) <= MaxLoads

\* a composer has been constructed.  flags: the values of ppssaoValues.enabled,
\* n8ssaoValues.enabled and of "rendererValues.toneMapping is 5 or 0";
\* extrasValues.bloom is 1.5
Constructed(configs, spawnSuns, flags) ==
  /\ \E config \in configs, spawnSun \in spawnSuns, f \in flags :
       LET w == Constructor(config, spawnSun, f[1], f[2], f[3], 15)
       IN  WithinLoadBounds(w) /\ Is(w)
  /\ now = 0
  /\ ops = 0

\* the caller replaces the configuration
UpdateConfigFrom(configs) ==
  \E config \in configs :
    LET w == UpdateEnvironmentConfiguration(World, config)
    IN  /\ WithinLoadBounds(w)
        /\ Becomes(w)
        /\ UNCHANGED now

\* useHDRJPG is called directly (it is public; the panel's "Set HDRI" button
\* calls it for a .jpg file)
CallUseHDRJPG ==
  \E url \in Urls :
    LET w == UseHDRJPG(World, url)
    IN  /\ WithinLoadBounds(w)
        /\ Becomes(w)
        /\ UNCHANGED now

\* useHDRI is called directly (public; "Set HDRI" with a .hdr file)
CallUseHDRI ==
  \E url \in Urls :
    LET w == UseHDRI(World, url)
    IN  /\ WithinLoadBounds(w)
        /\ Becomes(w)
        /\ UNCHANGED now

\* the owner tears the composer down
CallDispose ==
  Becomes(Dispose(World)) /\ UNCHANGED now

\* generateEnvironmentMap is public: a call with an edge size of the
\* caller's choice
CallGenerateEnvironmentMap(sizes_) ==
  \E size \in sizes_ :
    /\ sky.present
    /\ Becomes(RunGeneratorSized(World, size))
    /\ UNCHANGED now

\* the decode of load i succeeds: resolve(envMap), then the .then() callback
LoadFulfilled ==
  \E i \in PendingLoads(loads) :
    /\ Becomes(OnLoaded(World, i))
    /\ UNCHANGED now

\* the decode of load i yields no environment map: reject(...)
LoadRejected ==
  \E i \in PendingLoads(loads) :
    /\ Becomes(OnRejected(World, i))
    /\ UNCHANGED now

\* the loader of load i fails
LoaderError ==
  \E i \in PendingLoads(loads) :
    /\ Becomes(OnLoaderError(World, i))
    /\ UNCHANGED now

\* the frame loop calls render with the frame driver's time, which never
\* decreases
RenderFrameAt(times) ==
  \E time \in times :
    /\ time >= now
    /\ Becomes(Render(World, time))
    /\ now' = time

\* the window is resized (resizeListener), or the owner calls fitContainer
ResizeTo(parents, pixelRatios) ==
  \E parent \in parents, devicePixelRatio \in pixelRatios :
    Becomes(FitContainer(World, parent, devicePixelRatio))
    /\ UNCHANGED now

\* a change in one of the panel's folders; inputs are << key, value >> pairs
PanelSunFrom(inputs) ==
  \E kv \in inputs :
    Becomes(PanelSunChange(World, kv[1], kv[2])) /\ UNCHANGED now

PanelSkyboxFrom(inputs) ==
  \E kv \in inputs :
    Becomes(PanelSkyboxChange(World, kv[1], kv[2])) /\ UNCHANGED now

PanelAmbientFogFrom(inputs) ==
  \E kv \in inputs :
    Becomes(PanelAmbientFogChange(World, kv[1], kv[2])) /\ UNCHANGED now

PanelAtmosphericFrom(inputs) ==
  \E kv \in inputs :
    Becomes(PanelAtmosphericChange(World, kv[1], kv[2])) /\ UNCHANGED now

\* the application shows or hides a member of the scene
ApplicationSetsVisible ==
  \E index \in 1..Len(scene.children), visible \in BOOLEAN :
    Becomes(SetVisible(World, index, visible)) /\ UNCHANGED now

\* a change in the atmospheric folder during which cubeCamera.update throws
PanelAtmosphericThrowsFrom(inputs) ==
  \E kv \in inputs :
    Becomes(PanelAtmosphericChangeThrowing(World, kv[1], kv[2]))
    /\ UNCHANGED now

\* enableSunTracking / disableSunTracking are public
CallEnableSunTrackingWith(speeds, cycleDurations) ==
  \E speed \in speeds, cycleDuration \in cycleDurations :
    Becomes(EnableSunTracking(World, speed, cycleDuration)) /\ UNCHANGED now

CallDisableSunTracking ==
  Becomes(DisableSunTracking(World)) /\ UNCHANGED now

\* ------------------------------------------------------------------------
\* Spec: skybox sources and scene lighting.  Panorama loads through both
\* loaders, the atmospheric sky, frames, with and without a tracked sun.
\* ------------------------------------------------------------------------

LightingConfigs ==
  { EmptyConfig, TrackingConfig("false", Absent, Absent),
    PanoramaConfig("hdrJpgUrl", "urlA"), PanoramaConfig("hdrUrl", "urlB") }

OneFlagSet == { << FALSE, TRUE, TRUE >> }

Init == Constructed(LightingConfigs, BOOLEAN, OneFlagSet)

UpdateConfig ==
  /\ UpdateConfigFrom(LightingConfigs)
  /\ UNCHANGED ops

UseHDRJPGCalled ==
  /\ CallUseHDRJPG
  /\ UNCHANGED ops

UseHDRICalled ==
  /\ CallUseHDRI
  /\ UNCHANGED ops

Fulfilled ==
  /\ LoadFulfilled
  /\ UNCHANGED ops

Rejected ==
  /\ LoadRejected
  /\ UNCHANGED ops

LoaderFailed ==
  /\ LoaderError
  /\ UNCHANGED ops

RenderFrame ==
  /\ RenderFrameAt({ 25 })
  /\ UNCHANGED ops

PanelAtmospheric ==
  /\ PanelAtmosphericFrom({ << "turbidity", 200 >> })
  /\ UNCHANGED ops

Next ==
  \/ UpdateConfig
  \/ UseHDRJPGCalled
  \/ UseHDRICalled
  \/ Fulfilled
  \/ Rejected
  \/ LoaderFailed
  \/ RenderFrame
  \/ PanelAtmospheric

Spec == Init /\ [][Next]_vars

\* ------------------------------------------------------------------------
\* SpecSun: the sun, its tracking and the sky shader's sun position.
\* ------------------------------------------------------------------------

SunConfigs ==
  { EmptyConfig,
    PanoramaConfig("hdrUrl", "urlA"),
    [ EmptyConfig EXCEPT !.sun.intensity = 5000,
                         !.sun.azimuthalAngle = 900,
                         !.sun.polarAngle = 600 ],
    TrackingConfig("false", Absent, Absent),
    TrackingConfig("absent", 200, Absent),
    TrackingConfig("true", Absent, 20) }

\* frame times before, at and after the start time the first advance records
SunFrameTimes == { 0, 25, 50, 75 }

SunPanelInputs ==
  { << "sunAzimuthalAngle", 450 >>, << "sunPolarAngle", 600 >>,
    << "sunIntensity", 3000 >> }

SunInit == /\ Constructed(SunConfigs, BOOLEAN, OneFlagSet)

SunUpdateConfig ==
  /\ ops < MaxOps
  /\ UpdateConfigFrom(SunConfigs)
  /\ ops' = ops + 1

SunRenderFrame ==
  /\ RenderFrameAt(SunFrameTimes)
  /\ UNCHANGED ops

SunPanel ==
  /\ ops < MaxOps
  /\ PanelSunFrom(SunPanelInputs)
  /\ ops' = ops + 1

SunEnableTracking ==
  /\ ops < MaxOps
  /\ CallEnableSunTrackingWith({ 100 }, { 30 })
  /\ ops' = ops + 1

SunDisableTracking ==
  /\ ops < MaxOps
  /\ CallDisableSunTracking
  /\ ops' = ops + 1

SunFulfilled ==
  /\ LoadFulfilled
  /\ UNCHANGED ops

SunResize ==
  /\ ResizeTo({ << 800, 600 >> }, { 2 })
  /\ UNCHANGED ops

SunNext ==
  \/ SunResize
  \/ SunUpdateConfig
  \/ SunRenderFrame
  \/ SunPanel
  \/ SunEnableTracking
  \/ SunDisableTracking
  \/ SunFulfilled

SpecSun == SunInit /\ [][SunNext]_vars

\* ------------------------------------------------------------------------
\* SpecGenerator: the environment map generator and the visibility of the
\* scene's members, which the application may change between calls.
\* ------------------------------------------------------------------------

GeneratorConfigs == { EmptyConfig, TrackingConfig("false", Absent, Absent) }

GeneratorFrameTimes == { 0, 75 }

GeneratorInit == Constructed(GeneratorConfigs, BOOLEAN, OneFlagSet)

GeneratorSetVisible ==
  /\ ApplicationSetsVisible
  /\ UNCHANGED ops

GeneratorPanelAtmospheric ==
  /\ PanelAtmosphericFrom({ << "turbidity", 200 >> })
  /\ UNCHANGED ops

GeneratorRenderThrows ==
  /\ PanelAtmosphericThrowsFrom({ << "rayleigh", 10 >> })
  /\ UNCHANGED ops

GeneratorUpdateConfig ==
  /\ UpdateConfigFrom(GeneratorConfigs)
  /\ UNCHANGED ops

GeneratorRenderFrame ==
  /\ RenderFrameAt(GeneratorFrameTimes)
  /\ UNCHANGED ops

\* the generator called with an edge size other than the default, and with
\* the default again
GeneratorSizes == { 256, CubeSize }

GeneratorCalledDirectly ==
  /\ generator.created < MaxTargets
  /\ CallGenerateEnvironmentMap(GeneratorSizes)
  /\ UNCHANGED ops

GeneratorTornDown ==
  /\ CallDispose
  /\ UNCHANGED ops

GeneratorNext ==
  \/ GeneratorCalledDirectly
  \/ GeneratorTornDown
  \/ GeneratorSetVisible
  \/ GeneratorPanelAtmospheric
  \/ GeneratorRenderThrows
  \/ GeneratorUpdateConfig
  \/ GeneratorRenderFrame

SpecGenerator == GeneratorInit /\ [][GeneratorNext]_vars

\* ------------------------------------------------------------------------
\* SpecConfig: configuration updates over every field, after values set by
\* the constructor's configuration, an earlier update or the panel.
\* ------------------------------------------------------------------------

ConfigStepInputs ==
  { EmptyConfig,
    PanoramaConfig("hdrJpgUrl", "urlA"),
    AtmosphericConfig([ NoAtmospheric EXCEPT !.given = TRUE,
                                             !.turbidity = 100,
                                             !.rayleigh = 10,
                                             !.mieCoefficient = 5,
                                             !.mieDirectionalG = 70 ]),
    [ EmptyConfig EXCEPT !.skybox = [ NoSkybox EXCEPT !.given = TRUE,
                                                      !.intensity = 5,
                                                      !.blurriness = 1,
                                                      !.azimuthalAngle = 900,
                                                      !.polarAngle = 450 ] ],
    [ EmptyConfig EXCEPT !.sun.intensity = 5000,
                         !.sun.azimuthalAngle = 900,
                         !.sun.polarAngle = 600 ],
    TrackingConfig("false", Absent, Absent),
    TrackingConfig("true", 200, 20),
    [ EmptyConfig EXCEPT !.envMapIntensity = 5,
                         !.fog = [ fogNear |-> 10, fogFar |-> 300,
                                   fogColor |-> << 2, 3, 4 >> ],
                         !.bloomIntensity = 20,
                         !.ambientLightIntensity = 5 ] }

ConfigInit == Constructed(ConfigStepInputs, BOOLEAN, OneFlagSet)

ConfigUpdate ==
  /\ ops < MaxOps
  /\ UpdateConfigFrom(ConfigStepInputs)
  /\ ops' = ops + 1

ConfigPanelAtmospheric ==
  /\ ops < MaxOps
  /\ PanelAtmosphericFrom({ << "turbidity", 200 >>,
       << "mieDirectionalG", 50 >> })
  /\ ops' = ops + 1

ConfigPanelSkybox ==
  /\ ops < MaxOps
  /\ PanelSkyboxFrom({ << "envMapIntensity", 8 >>,
       << "skyboxAzimuthalAngle", 1800 >>,
       << "skyboxPolarAngle", 900 >>,
       << "skyboxIntensity", 8 >>,
       << "skyboxBlurriness", 2 >> })
  /\ ops' = ops + 1

ConfigPanelAmbientFog ==
  /\ ops < MaxOps
  /\ PanelAmbientFogFrom({ << "ambientLightIntensity", 3 >>,
       << "fogNear", 20 >>, << "fogFar", 0 >> })
  /\ ops' = ops + 1

ConfigPanelSun ==
  /\ ops < MaxOps
  /\ PanelSunFrom({ << "sunIntensity", 3000 >> })
  /\ ops' = ops + 1

ConfigFulfilled ==
  /\ LoadFulfilled
  /\ UNCHANGED ops

ConfigRenderFrame ==
  /\ RenderFrameAt({ 75 })
  /\ UNCHANGED ops

ConfigNext ==
  \/ ConfigUpdate
  \/ ConfigPanelAtmospheric
  \/ ConfigPanelSkybox
  \/ ConfigPanelAmbientFog
  \/ ConfigPanelSun
  \/ ConfigFulfilled
  \/ ConfigRenderFrame

SpecConfig == ConfigInit /\ [][ConfigNext]_vars

\* ------------------------------------------------------------------------
\* SpecPasses: the pass graph, for every combination of the flags the
\* constructor reads.
\* ------------------------------------------------------------------------

AllFlagSets == { << a, b, c >> : a \in BOOLEAN, b \in BOOLEAN, c \in BOOLEAN }

PassesConfigs ==
  { EmptyConfig, PanoramaConfig("hdrJpgUrl", "urlA"),
    [ EmptyConfig EXCEPT !.bloomIntensity = 20 ] }

PassesInit == Constructed(PassesConfigs, BOOLEAN, AllFlagSets)

PassesUpdateConfig ==
  /\ UpdateConfigFrom(PassesConfigs)
  /\ UNCHANGED ops

PassesFulfilled ==
  /\ LoadFulfilled
  /\ UNCHANGED ops

PassesRenderFrame ==
  /\ RenderFrameAt({ 25 })
  /\ UNCHANGED ops

ViewportSizes == { << 800, 600 >>, << 1920, 1080 >> }

PassesResize ==
  /\ ResizeTo(ViewportSizes \cup { NoParent }, { 1, 2 })
  /\ UNCHANGED ops

PassesNext ==
  \/ PassesResize
  \/ PassesUpdateConfig
  \/ PassesFulfilled
  \/ PassesRenderFrame

SpecPasses == PassesInit /\ [][PassesNext]_vars

\* ------------------------------------------------------------------------
\* Panorama loads (Spec)
\* ------------------------------------------------------------------------

\* the map load i decodes to
MapOf(i) == PanoramaMap(i, loads[i].url)

\* load a was issued before load b and was still pending when b was issued
BothResolved(ls, a, b) == ls[a].status = "fulfilled" /\ ls[b].status = "fulfilled"

\* A's map is in no part of the scene
NeverAsMap ==
  \A b \in 1..Len(loads) : \A a \in loads[b].overlap :
    scene.environment # MapOf(a) /\ scene.background # MapOf(a)

\* the step that resolves the second of A and B, B being the latest load:
\* when it resolves B it puts B's map in the scene, when it resolves A
\* (after B) the scene keeps B's map
SecondResolutionShowsB ==
  \A b \in 1..Len(loads) : \A a \in loads[b].overlap :
    ( /\ ~BothResolved(loads, a, b)
      /\ Len(loads') = Len(loads)
      /\ BothResolved(loads', a, b)
      /\ skyboxState.latestPromise = b )
    => /\ loads[b].status = "pending" =>
            scene'.environment = MapOf(b) /\ scene'.background = MapOf(b)
       /\ loads[a].status = "pending" => scene' = scene

\* C1: for two panorama loads issued as A then B before either resolves, in
\* whichever order the two decodes resolve, A's map is never in the scene's
\* environment or background, and the step that resolves the second of the
\* two leaves B's map as environment and background (B's resolution applies
\* it; A's resolution after B changes nothing).
C1_LaterLoadWins == [] NeverAsMap /\ [][SecondResolutionShowsB]_vars

\* A and B were issued before either resolved, both have resolved, and the
\* scene's environment and background are B's map
C1_Witness ==
  \E b \in 1..Len(loads) : \E a \in loads[b].overlap :
    /\ BothResolved(loads, a, b)
    /\ loads[a].url # loads[b].url
    /\ scene.environment = MapOf(b)
    /\ scene.background = MapOf(b)

\* C2: the step in which the decode of a superseded load resolves (a newer
\* load is the latest) leaves the whole scene unchanged, environment,
\* background, intensities and rotations included, and changes nothing but
\* that load's status: no load becomes rejected or failed.
C2_SupersededResolutionIsSilent ==
  [][ \A i \in 1..Len(loads) :
        ( /\ loads[i].status = "pending"
          /\ Len(loads') = Len(loads)
          /\ loads'[i].status = "fulfilled"
          /\ skyboxState.latestPromise # i )
        => /\ scene' = scene
           /\ loads' = [ loads EXCEPT ![i].status = "fulfilled" ]
           /\ skyboxState' = skyboxState ]_vars

\* a superseded load has resolved while the scene shows a map that is not
\* its own
C2_Witness ==
  \E b \in 1..Len(loads) : \E a \in loads[b].overlap :
    /\ loads[a].status = "fulfilled"
    /\ loads[b].status = "pending"
    /\ scene.environment = SkyMap

\* the latest load is pending and was issued through this loader for this URL
LatestPendingFor(loader, url) ==
  /\ Len(loads) > 0
  /\ skyboxState.latestPromise = Len(loads)
  /\ loads[Len(loads)].status = "pending"
  /\ loads[Len(loads)].loader = loader
  /\ loads[Len(loads)].url = url

\* C3: while a load is pending, issuing the same load again (same loader,
\* same URL) starts no decode and leaves the latest load as it is: the call
\* changes no state at all.
C3_SameUrlWhilePending ==
  \A url \in Urls :
    /\ LatestPendingFor("HDRJPGLoader", url) => UseHDRJPG(World, url) = World
    /\ LatestPendingFor("RGBELoader", url) => UseHDRI(World, url) = World

\* one decode of urlA is pending, a second call for it has nothing to start
C3_Witness ==
  /\ LatestPendingFor("HDRJPGLoader", "urlA")
  /\ Len(loads) = 1
  /\ UseHDRJPG(World, "urlA").loads = loads

\* load i is the load whose map the scene shows
Applied(i) ==
  /\ loads[i].status = "fulfilled"
  /\ scene.environment = MapOf(i)
  /\ scene.background = MapOf(i)

UseLoader(w, loader, url) ==
  IF loader = "HDRJPGLoader" THEN UseHDRJPG(w, url) ELSE UseHDRI(w, url)

\* C4 as stated: issuing a load for the URL whose map is applied to the
\* scene changes no state, also while a load for another URL is pending.
C4_AppliedUrlIsNoOp ==
  \A i \in 1..Len(loads) :
    Applied(i) => UseLoader(World, loads[i].loader, loads[i].url) = World

\* C4: issuing a load for the URL whose map is applied to the scene changes
\* no state and starts no decode, provided no other load has been issued
\* since that one.
C4_AppliedLatestUrlIsNoOp ==
  \A i \in 1..Len(loads) :
    Applied(i) /\ skyboxState.latestPromise = i
    => UseLoader(World, loads[i].loader, loads[i].url) = World

\* the latest load's map is applied and a call for its URL starts nothing
C4_Witness ==
  \E i \in 1..Len(loads) :
    /\ Applied(i)
    /\ skyboxState.latestPromise = i
    /\ UseLoader(World, loads[i].loader, loads[i].url).loads = loads

\* C5 as stated: every decode that failed has been signalled to the caller.
C5_FailureSurfaced ==
  \A i \in 1..Len(loads) :
    loads[i].status \in { "rejected", "failed" } => loads[i].reported

\* ------------------------------------------------------------------------
\* Sun and sky (SpecSun)
\* ------------------------------------------------------------------------

\* the direction of the angles last given to the sun object
SunObjectDirection ==
  SunDirection(RadToDeg(sun.azimuthalAngle), RadToDeg(sun.polarAngle))

\* C6 as stated: whenever a sun exists, after every operation the sky
\* shader's sunPosition uniform is the conversion of the angles last applied
\* to the sun object.
C6_SkySunPositionMatchesSun ==
  sun.present /\ sky.present => sky.uniforms.sunPosition = SunObjectDirection

\* ------------------------------------------------------------------------
\* Configuration updates (SpecConfig)
\* ------------------------------------------------------------------------

AtmosphericFields == { "turbidity", "rayleigh", "mieCoefficient", "mieDirectionalG" }

\* the configuration c gives the atmospheric coefficient f
GivesAtmospheric(c, f) ==
  /\ c.skybox.given
  /\ c.skybox.source = "atmospheric"
  /\ c.skybox.atmospheric.given
  /\ c.skybox.atmospheric[f] # Absent

\* what the scene shows, and the load bookkeeping behind it, is the same in
\* w and u
SameSource(w, u) ==
  /\ u.scene.environment = w.scene.environment
  /\ u.scene.background = w.scene.background
  /\ u.skyboxState = w.skyboxState
  /\ u.loads = w.loads

\* every field other than the skybox source and the tracking enablement
\* that c omits has in u the value it has in w
OmittedValuesRetained(w, u, c) ==
  /\ \A f \in AtmosphericFields :
       ~GivesAtmospheric(c, f) =>
         /\ u.envValues.atmosphericSky[f] = w.envValues.atmosphericSky[f]
         /\ u.sky.uniforms[f] = w.sky.uniforms[f]
  /\ c.envMapIntensity = Absent =>
       /\ u.envValues.envMapIntensity = w.envValues.envMapIntensity
       /\ u.scene.environmentIntensity = w.scene.environmentIntensity
  /\ c.skybox.intensity = Absent =>
       /\ u.envValues.skyboxIntensity = w.envValues.skyboxIntensity
       /\ u.scene.backgroundIntensity = w.scene.backgroundIntensity
  /\ c.skybox.blurriness = Absent =>
       /\ u.envValues.skyboxBlurriness = w.envValues.skyboxBlurriness
       /\ u.scene.backgroundBlurriness = w.scene.backgroundBlurriness
  /\ c.skybox.azimuthalAngle = Absent =>
       u.envValues.skyboxAzimuthalAngle = w.envValues.skyboxAzimuthalAngle
  /\ c.skybox.polarAngle = Absent =>
       u.envValues.skyboxPolarAngle = w.envValues.skyboxPolarAngle
  /\ c.skybox.azimuthalAngle = Absent /\ c.skybox.polarAngle = Absent =>
       /\ u.scene.environmentRotation = w.scene.environmentRotation
       /\ u.scene.backgroundRotation = w.scene.backgroundRotation
  /\ c.sun.intensity = Absent =>
       /\ u.sunValues.sunIntensity = w.sunValues.sunIntensity
       /\ u.sun.intensity = w.sun.intensity
  /\ c.sun.azimuthalAngle = Absent =>
       /\ u.sunValues.sunPosition.sunAzimuthalAngle
            = w.sunValues.sunPosition.sunAzimuthalAngle
       /\ u.sun.azimuthalAngle = w.sun.azimuthalAngle
  /\ c.sun.polarAngle = Absent =>
       /\ u.sunValues.sunPosition.sunPolarAngle
            = w.sunValues.sunPosition.sunPolarAngle
       /\ u.sun.polarAngle = w.sun.polarAngle
  /\ c.sun.tracking.speed = Absent => u.sunTracking.speed = w.sunTracking.speed
  /\ c.sun.tracking.cycleDuration = Absent =>
       u.sunTracking.cycleDuration = w.sunTracking.cycleDuration
  /\ c.fog.fogNear = Absent => u.envValues.fog.fogNear = w.envValues.fog.fogNear
  /\ c.fog.fogFar = Absent => u.envValues.fog.fogFar = w.envValues.fog.fogFar
  /\ c.fog.fogColor = NoVector => u.envValues.fog.fogColor = w.envValues.fog.fogColor
  /\ c.fog = NoFogConfig => u.scene.fog = w.scene.fog
  /\ c.bloomIntensity = Absent =>
       /\ u.extrasBloom = w.extrasBloom
       /\ u.bloomEffect = w.bloomEffect
  /\ c.ambientLightIntensity = Absent =>
       /\ u.envValues.ambientLight = w.envValues.ambientLight
       /\ u.ambientLight = w.ambientLight

\* C7 as stated: every omitted field, the skybox source and the tracking
\* enablement included, keeps its value.
C7_MergeSemantics ==
  \A c \in ConfigInputs :
    LET u == UpdateEnvironmentConfiguration(World, c)
    IN  /\ OmittedValuesRetained(World, u, c)
        /\ (~c.skybox.given \/ c.skybox.source = "none") => SameSource(World, u)
        /\ c.sun.tracking.enabled = "absent" =>
             u.sunTracking.enabled = sunTracking.enabled

\* C7: updateEnvironmentConfiguration keeps the value of every field the new
\* configuration omits (atmospheric coefficients, envMap and skybox
\* intensity, blurriness and rotation, sun intensity and angles, tracking
\* speed and cycle duration, fog, bloom, ambient light), with two
\* exceptions: a configuration without a skybox field selects the
\* atmospheric sky (generated map as environment, null background) instead
\* of keeping the source (a skybox object without a source key keeps it);
\* and, when a sun exists, a tracking object that gives speed or
\* cycleDuration but no enabled flag turns tracking on (with no tracking
\* object the enablement is kept).
C7_MergeSemanticsExceptSourceAndEnablement ==
  \A c \in ConfigInputs :
    LET u  == UpdateEnvironmentConfiguration(World, c)
        tr == c.sun.tracking
    IN  /\ OmittedValuesRetained(World, u, c)
        /\ c.skybox.given /\ c.skybox.source = "none" => SameSource(World, u)
        /\ ~c.skybox.given =>
             /\ u.scene.environment = SkyMap
             /\ u.scene.background = NullTexture
             /\ u.skyboxState = skyboxState
             /\ u.loads = loads
        /\ ~tr.given => u.sunTracking = sunTracking
        /\ ( /\ tr.given
             /\ tr.enabled = "absent"
             /\ tr.speed = Absent
             /\ tr.cycleDuration = Absent ) => u.sunTracking = sunTracking
        /\ ( /\ tr.given
             /\ tr.enabled = "absent"
             /\ (tr.speed # Absent \/ tr.cycleDuration # Absent)
             /\ sun.present ) => u.sunTracking.enabled

\* an update that omitted every field ran, after values that are not the
\* defaults had been set: the values are still there
C7_Witness ==
  /\ environmentConfiguration = EmptyConfig
  /\ ops > 0
  /\ envValues.atmosphericSky.turbidity = 100
  /\ envValues.fog.fogFar = 300
  /\ extrasBloom = 20
  /\ scene.environment = SkyMap

\* C8 as stated: after a configuration with no skybox field, the sky has the
\* default coefficients.
C8_NoSkyboxGivesDefaults ==
  \A c \in ConfigInputs :
    ~c.skybox.given =>
      LET u == UpdateEnvironmentConfiguration(World, c)
      IN  /\ u.scene.environment = SkyMap
          /\ u.scene.background = NullTexture
          /\ u.sky.uniforms.turbidity = DefaultEnvValues.atmosphericSky.turbidity
          /\ u.sky.uniforms.rayleigh = DefaultEnvValues.atmosphericSky.rayleigh
          /\ u.sky.uniforms.mieCoefficient
               = DefaultEnvValues.atmosphericSky.mieCoefficient
          /\ u.sky.uniforms.mieDirectionalG
               = DefaultEnvValues.atmosphericSky.mieDirectionalG

\* C8: a configuration with no skybox field selects the atmospheric sky
\* (generated map as environment, null background) with the coefficients
\* the panel values hold at that moment: the defaults only when no earlier
\* configuration or panel edit has changed them.
C8_NoSkyboxGivesCurrentCoefficients ==
  \A c \in ConfigInputs :
    ~c.skybox.given =>
      LET u == UpdateEnvironmentConfiguration(World, c)
      IN  /\ u.scene.environment = SkyMap
          /\ u.scene.background = NullTexture
          /\ \A f \in AtmosphericFields :
               /\ u.sky.uniforms[f] = envValues.atmosphericSky[f]
               /\ u.envValues.atmosphericSky[f] = envValues.atmosphericSky[f]

\* a configuration with no skybox field was applied after a panel edit of
\* the turbidity, and the sky shows the edited turbidity
C8_Witness ==
  /\ ~environmentConfiguration.skybox.given
  /\ ops > 1
  /\ scene.environment = SkyMap
  /\ sky.uniforms.turbidity = 200
  /\ envValues.atmosphericSky.turbidity = 200

\* ------------------------------------------------------------------------
\* Lighting seen by a frame (Spec)
\* ------------------------------------------------------------------------

AtmosphericLighting ==
  scene.environment = SkyMap /\ scene.background = NullTexture

PanoramaLighting ==
  /\ scene.environment.kind = "panorama"
  /\ scene.background = scene.environment
  /\ loads[scene.environment.load].status = "fulfilled"
  /\ loads[scene.environment.load].url = scene.environment.url

\* C9: in every state a frame can render, the lighting is complete: either
\* the environment is the generated sky map and the background is null, or
\* environment and background are the same map of a load that has been
\* decoded.
C9_LightingComplete == AtmosphericLighting \/ PanoramaLighting

\* a frame has been rendered and the scene shows a decoded panorama
C9_Witness ==
  /\ now > 0
  /\ PanoramaLighting
  /\ renderer.toneMapping = "ACESFilmicToneMapping"

\* ------------------------------------------------------------------------
\* Pass graph (SpecPasses)
\* ------------------------------------------------------------------------

FixedOrder ==
  << "renderPass", "normalPass", "ppssaoPass", "n8aopass", "fxaaPass",
     "bloomPass", "toneMappingPass", "bcsPass", "gaussGrainPass" >>

OptionalPasses == { "normalPass", "ppssaoPass", "n8aopass" }

InGraph(p) == p \notin OptionalPasses \/ passEnabled[p]

\* C10: the pass graph is the fixed order render, normal + SSAO A, SSAO B,
\* anti-alias, bloom, tone-mapping, brightness/contrast/saturation, grain,
\* without the optional passes that are not enabled, and no step changes it.
C10_FixedPassOrder ==
  /\ [] (passes = SelectSeq(FixedOrder, InGraph))
  /\ [][passes' = passes]_vars

\* a graph with variant A and without variant B, after a configuration
\* update and a rendered frame
C10_Witness ==
  /\ passes = << "renderPass", "normalPass", "ppssaoPass", "fxaaPass",
                 "bloomPass", "toneMappingPass", "bcsPass", "gaussGrainPass" >>
  /\ environmentConfiguration.bloomIntensity = 20
  /\ extrasBloom = 20
  /\ now > 0

\* ------------------------------------------------------------------------
\* Frames (SpecPasses)
\* ------------------------------------------------------------------------

\* the passes of the graph that are enabled, in graph order
EnabledPasses == SelectSeq(passes, LAMBDA p : passEnabled[p])

\* C11 as stated: once a frame has been rendered, the frame was executed
\* through the pass graph: every enabled pass ran, in graph order.
C11_FrameRunsPassGraph ==
  renderer.frames => renderer.passesRun = EnabledPasses

\* ------------------------------------------------------------------------
\* Sun tracker (SpecSun)
\* ------------------------------------------------------------------------

\* the configuration c asks for tracking to be switched on
EnablesTracking(c) ==
  /\ c.sun.tracking.given
  /\ c.sun.tracking.enabled # "false"
  /\ \/ c.sun.tracking.enabled = "true"
     \/ c.sun.tracking.speed # Absent
     \/ c.sun.tracking.cycleDuration # Absent

\* the configuration c asks for tracking to be switched off
DisablesTracking(c) ==
  c.sun.tracking.given /\ c.sun.tracking.enabled = "false"

\* C12: whatever the state, the tracker goes from Static to Tracking only by
\* enableSunTracking with a sun or by a configuration update that enables
\* tracking, from Tracking to Static only by disableSunTracking or by a
\* configuration update with tracking.enabled false; frames, resizes, panel
\* sun changes, load resolutions and configuration updates without a
\* tracking field leave the tracking state as it is.
C12_TrackingTransitions ==
  /\ \A t \in SunFrameTimes :
       Render(World, t).sunTracking.enabled = sunTracking.enabled
  /\ \A parent \in ViewportSizes \cup { NoParent }, ratio \in { 1, 2 } :
       FitContainer(World, parent, ratio).sunTracking = sunTracking
  /\ \A kv \in SunPanelInputs :
       PanelSunChange(World, kv[1], kv[2]).sunTracking = sunTracking
  /\ \A i \in PendingLoads(loads) :
       OnLoaded(World, i).sunTracking = sunTracking
  /\ \A c \in ConfigInputs :
       LET u == UpdateEnvironmentConfiguration(World, c)
       IN  /\ ~c.sun.tracking.given => u.sunTracking = sunTracking
           /\ ~sunTracking.enabled /\ u.sunTracking.enabled =>
                EnablesTracking(c) /\ sun.present
           /\ sunTracking.enabled /\ ~u.sunTracking.enabled =>
                DisablesTracking(c)
  /\ EnableSunTracking(World, 100, 10).sunTracking.enabled
       = (sunTracking.enabled \/ sun.present)
  /\ ~DisableSunTracking(World).sunTracking.enabled

\* the tracker is Static after it was Tracking and advanced, and frames have
\* been rendered
C12_Witness ==
  /\ sun.present
  /\ ~sunTracking.enabled
  /\ sunTracking.startTime = FirstStartTime
  /\ now = 75
  /\ sizes.width = 800

\* the values a static sun can have been configured with: the field of the
\* configuration when it is given, and the panel's sun value
ConfiguredIntensities ==
  { sunValues.sunIntensity }
  \cup IF environmentConfiguration.sun.intensity # Absent
       THEN { environmentConfiguration.sun.intensity } ELSE { }

ConfiguredAzimuths ==
  { sunValues.sunPosition.sunAzimuthalAngle }
  \cup IF environmentConfiguration.sun.azimuthalAngle # Absent
       THEN { environmentConfiguration.sun.azimuthalAngle } ELSE { }

ConfiguredPolars ==
  { sunValues.sunPosition.sunPolarAngle }
  \cup IF environmentConfiguration.sun.polarAngle # Absent
       THEN { environmentConfiguration.sun.polarAngle } ELSE { }

\* C13 as stated: while the tracker is Static, also right after it stopped
\* tracking, the sun's azimuth, elevation and intensity are the configured
\* values.
C13_StaticSunAtConfiguredValues ==
  sun.present /\ ~sunTracking.enabled =>
    /\ sun.intensity \in ConfiguredIntensities
    /\ RadToDeg(sun.azimuthalAngle) \in ConfiguredAzimuths
    /\ RadToDeg(sun.polarAngle) \in ConfiguredPolars

\* the tracker is Tracking
Tracking == sun.present /\ sunTracking.enabled

\* cycle progress * 360 degrees (deci-degrees) when the elapsed time is
\* scaled by the configured speed (hundredths):
\* (((currentTime - startTime) * speed / cycleDuration) mod 1) * 360
SpeedScaledPhase(currentTime, startTime, speed, cycleDuration) ==
  TruncDiv(JsMod((currentTime - startTime) * speed, 100 * cycleDuration) * 36,
           cycleDuration)

\* C14 as stated: while Tracking, the advance at frame time t uses the cycle
\* progress ((t - start) * speed / cycleDuration) mod 1, start being the
\* start time the tracker has recorded.
C14_ProgressScalesWithSpeed ==
  Tracking =>
    \A t \in SunFrameTimes :
      LET u == UpdateSunTracking(World, t)
      IN  u.sunValues.sunPosition.sunAzimuthalAngle
            = JsMod(TrackedAzimuth(
                      SpeedScaledPhase(t, u.sunTracking.startTime,
                                       sunTracking.speed,
                                       sunTracking.cycleDuration)),
                    3600)

\* C15 as stated: while Tracking, an advance at cycle progress 0.5 puts the
\* sun at its highest point (the smallest polar angle) and an advance at
\* cycle progress 0 at its lowest (the largest polar angle).
C15_MiddayAtHalfCycle ==
  Tracking =>
    \A t \in SunFrameTimes :
      LET u     == UpdateSunTracking(World, t)
          phase == CyclePhase(t, u.sunTracking.startTime,
                              sunTracking.cycleDuration)
          polar == u.sunValues.sunPosition.sunPolarAngle
      IN  /\ phase \in { 1800, 0 - 1800 } => polar = MinPolarAngle
          /\ phase = 0 => polar = MaxPolarAngle

\* C16 as stated: while Tracking, the advances at t and at t plus one full
\* cycle, cycleDuration seconds scaled by the speed, give the same azimuth
\* and the same polar angle.
C16_PeriodicInCycleDuration ==
  Tracking =>
    \A t \in SunFrameTimes :
      LET period == (sunTracking.cycleDuration * 100) \div sunTracking.speed
          u      == UpdateSunTracking(World, t)
          v      == UpdateSunTracking(World, t + period)
      IN  v.sunValues.sunPosition = u.sunValues.sunPosition

\* the base intensity an advance starts from
BaseSunIntensity ==
  IF environmentConfiguration.sun.intensity # Absent
  THEN environmentConfiguration.sun.intensity
  ELSE sunValues.sunIntensity

\* C17: while Tracking, the intensity an advance gives the sun is the base
\* intensity for a polar angle at or above the fade-start angle (75 degrees
\* from the zenith or less), zero at or below the fade-end angle (95 degrees
\* or more), and does not increase as the polar angle grows from the one to
\* the other.
C17_IntensityFade ==
  Tracking =>
    /\ \A t \in SunFrameTimes :
         LET u == UpdateSunTracking(World, t)
         IN  u.sun.intensity
               = TrackedIntensity(u.sunValues.sunPosition.sunPolarAngle,
                                  BaseSunIntensity)
    /\ \A p \in MinPolarAngle..FadeStartAngle :
         TrackedIntensity(p, BaseSunIntensity) = BaseSunIntensity
    /\ \A p \in FadeEndAngle..MaxPolarAngle :
         TrackedIntensity(p, BaseSunIntensity) = 0
    /\ \A p \in FadeStartAngle..(FadeEndAngle - 1) :
         TrackedIntensity(p, BaseSunIntensity)
           >= TrackedIntensity(p + 1, BaseSunIntensity)

\* an advance has left the sun inside the fade zone, dimmed but not dark
C17_Witness ==
  /\ Tracking
  /\ sunTracking.startTime = FirstStartTime
  /\ sunValues.sunPosition.sunPolarAngle > FadeStartAngle
  /\ sunValues.sunPosition.sunPolarAngle < FadeEndAngle
  /\ sun.intensity > 0
  /\ sun.intensity < BaseSunIntensity

\* the members of the scene other than the sky
OtherMembers(children) ==
  { i \in 1..Len(children) : children[i].name # "sky" }

\* C18: in every reachable scene, whatever the visibility of its members,
\* a call of generateEnvironmentMap that returns leaves every member's
\* visible flag (and the membership itself) as it was before the call, also
\* when it is made through updateAtmosphericSky.
C18_VisibilityPreserved ==
  /\ RunGenerator(World).scene.children = scene.children
  /\ UpdateAtmosphericSky(World).scene.children = scene.children

\* the generator has run and the scene holds members of both kinds, in an
\* assignment other than the initial one: the avatar hidden, the helper shown
C18_Witness ==
  /\ generator.renderTarget = CubeSize
  /\ generator.seen = { "sky" }
  /\ \E i, j \in OtherMembers(scene.children) :
       /\ scene.children[i].name = "avatar" /\ ~scene.children[i].visible
       /\ scene.children[j].name = "helper" /\ scene.children[j].visible

\* C19 as stated: when cubeCamera.update throws inside
\* generateEnvironmentMap, every member's visible flag is still what it was
\* before the call.
C19_VisibilityRestoredOnFailure ==
  RunGeneratorThrowing(World).scene.children = scene.children

\* C20: whenever the generator has rendered the cube faces, no member of the
\* scene other than the sky was visible in that render.
C20_OnlySkyRendered ==
  /\ generator.seen \subseteq { "sky" }
  /\ GeneratorRender(World).generator.seen \subseteq { "sky" }
  /\ \A i \in OtherMembers(scene.children) :
       ~GeneratorRender(World).scene.children[i].visible

\* the generator has rendered the sky of a scene in which lights and
\* application members are visible
C20_Witness ==
  /\ generator.renderTarget = CubeSize
  /\ "sky" \in generator.seen
  /\ { "ambientLight", "sun", "avatar", "helper" }
       \subseteq VisibleNames(scene.children)

\* C21: the generator's cube render target is created on the first call of
\* generateEnvironmentMap, the same target is kept by a call with the edge
\* size it has, and a call with another size disposes the old target and
\* creates a new one, so that at most one target that was never disposed
\* exists at any time.
C21_RenderTargetLifecycle ==
  /\ Cardinality(generator.live) <= 1
  /\ generator.live \subseteq { generator.created }
  /\ \A size \in GeneratorSizes :
       LET g == RunGeneratorSized(World, size).generator
       IN  /\ g.renderTarget = size
           /\ generator.renderTarget = 0 =>
                 g.created = generator.created + 1 /\ g.live = { g.created }
           /\ generator.renderTarget = size =>
                 g.created = generator.created /\ g.live = generator.live
           /\ generator.renderTarget \notin { 0, size } =>
                 /\ g.created = generator.created + 1
                 /\ g.live = { g.created }

\* the generator holds its third target: the size has changed twice
C21_Witness ==
  /\ generator.created = 3
  /\ generator.renderTarget = CubeSize
  /\ generator.live = { 3 }

\* C22 as stated: a second dispose releases nothing that is already released
\* and leaves the state the first dispose left.
C22_DisposeIdempotent ==
  /\ Dispose(Dispose(World)) = Dispose(World)
  /\ ReleasedByDispose(Dispose(World)) \cap Released(Dispose(World)) = { }

\* C22, amended: a second dispose leaves the state the first dispose left:
\* the resize listener removed, the generator's render target released, the
\* sky out of the scene, the renderer released.
C22_DisposeIdempotentState ==
  /\ Dispose(Dispose(World)) = Dispose(World)
  /\ ~Dispose(World).window.resizeListener
  /\ Dispose(World).generator.live = { }
  /\ Dispose(World).renderer.disposed

\* the composer has been torn down after its generator had made a map
C22_Witness ==
  /\ ~window.resizeListener
  /\ renderer.disposed
  /\ generator.renderTarget = CubeSize
  /\ generator.live = { }
  /\ "sky" \notin { scene.children[i].name : i \in 1..Len(scene.children) }

\* the device pixel ratios a window reports
PixelRatios == { 1, 2 }

\* C23 as stated: after fitContainer has read a new viewport size, every
\* enabled pass of the pass graph (the brightness / contrast / saturation
\* pass included) has been given that size, and the size given to the effect
\* composer is the resolution the composer keeps, the device pixel ratio
\* being applied to both alike.
C23_ResizeSizesEveryPass ==
  \A parent \in ViewportSizes, devicePixelRatio \in PixelRatios :
    LET s == FitContainer(World, parent, devicePixelRatio).sizes
    IN  /\ \A i \in 1..Len(passes) :
             passEnabled[passes[i]] => s.pass[passes[i]] = parent
        /\ s.renderer = parent
        /\ s.effectComposer = s.resolution

\* C24: for any two viewport sizes S1 and S2 (and any device pixel ratios),
\* fitContainer at S1, then at S2, then at S1 again leaves every size the
\* composer keeps or has handed out (each pass, the effect composer, the
\* renderer, the resolution vector) equal to what the first fit at S1 left.
C24_ResizeRoundTrip ==
  \A S1 \in ViewportSizes, S2 \in ViewportSizes,
     d1 \in PixelRatios, d2 \in PixelRatios :
    LET first == FitContainer(World, S1, d1)
        back  == FitContainer(FitContainer(first, S2, d2), S1, d1)
    IN  back.sizes = first.sizes

\* the composer is fitted to 800 x 600 after a frame was drawn, with the
\* occlusion pass disabled: its size is the one it was constructed with
C24_Witness ==
  /\ sizes.renderer = << 800, 600 >>
  /\ sizes.pixelRatio = 2
  /\ renderer.frames
  /\ ~passEnabled["n8aopass"]
  /\ sizes.pass["n8aopass"] = << 1, 1 >>
  /\ sizes.pass["renderPass"] = << 800, 600 >>

\* the configurations whose skybox is a panorama URL
PanoramaConfigs ==
  { PanoramaConfig(k, u) : k \in { "hdrJpgUrl", "hdrUrl" }, u \in Urls }

\* C25: when a configuration whose skybox is a panorama URL issues a load,
\* and the decode of that load succeeds while it is the latest (directly
\* after the update, or in any later state in which it is still pending and
\* latest), the scene's environment and the scene's background are both the
\* decoded map.
C25_PanoramaSetsEnvironmentAndBackground ==
  /\ \A config \in PanoramaConfigs :
       LET w1 == UpdateEnvironmentConfiguration(World, config)
           i  == Len(w1.loads)
           w2 == OnLoaded(w1, i)
       IN  Len(w1.loads) > Len(loads) =>
             /\ w1.loads[i].url = config.skybox.url
             /\ w2.scene.environment = PanoramaMap(i, config.skybox.url)
             /\ w2.scene.background = PanoramaMap(i, config.skybox.url)
  /\ \A i \in PendingLoads(loads) :
       skyboxState.latestPromise = i =>
         /\ OnLoaded(World, i).scene.environment = MapOf(i)
         /\ OnLoaded(World, i).scene.background = MapOf(i)

\* the configuration names a panorama, its load was the last one issued and
\* has been decoded, and the scene shows the decoded map
C25_Witness ==
  /\ environmentConfiguration.skybox.given
  /\ environmentConfiguration.skybox.source = "hdrJpgUrl"
  /\ Len(loads) > 0
  /\ skyboxState.latestPromise = Len(loads)
  /\ loads[Len(loads)].status = "fulfilled"
  /\ loads[Len(loads)].url = environmentConfiguration.skybox.url
  /\ scene.environment = MapOf(Len(loads))
  /\ scene.background = MapOf(Len(loads))

\* the configurations whose skybox is the atmospheric sky
AtmosphericConfigs ==
  { c \in ConfigInputs \cup ConfigStepInputs :
      c.skybox.given /\ c.skybox.source = "atmospheric" }

\* C26: a configuration with an atmospheric skybox, given to the
\* constructor of a composer without a sun or to
\* updateEnvironmentConfiguration while there is no sun, leaves the scene's
\* environment the map generated from the sky and the scene's background
\* texture null, whatever the scene showed before.
C26_AtmosphericEnvironmentNoBackground ==
  \A config \in AtmosphericConfigs :
    /\ \A f \in AllFlagSets :
         LET w == Constructor(config, FALSE, f[1], f[2], f[3], 15)
         IN  /\ w.scene.environment = SkyMap
             /\ w.scene.background = NullTexture
    /\ ~sun.present =>
         LET w == UpdateEnvironmentConfiguration(World, config)
         IN  /\ w.scene.environment = SkyMap
             /\ w.scene.environment # NullTexture
             /\ w.scene.background = NullTexture

\* a composer without a sun that showed a decoded panorama and was then
\* given an atmospheric skybox
C26_Witness ==
  /\ ~sun.present
  /\ environmentConfiguration \in AtmosphericConfigs
  /\ \E i \in 1..Len(loads) : loads[i].status = "fulfilled"
  /\ scene.environment = SkyMap
  /\ scene.background = NullTexture

\* the least turbidity the panel's slider allows, in tenths
MinTurbidity == 1

\* an update with a negative turbidity (-1.0), a zero cycle duration and a
\* valid rayleigh value
OutOfRangeConfig ==
  [ AtmosphericConfig([ NoAtmospheric EXCEPT !.given = TRUE,
                                             !.turbidity = 0 - 10,
                                             !.rayleigh = 10 ])
      EXCEPT !.sun.tracking = [ given |-> TRUE, enabled |-> "true",
                                speed |-> Absent, cycleDuration |-> 0 ] ]

\* C27 as stated: an update with an out-of-range turbidity and cycle
\* duration stores valid values in their place (a turbidity of at least the
\* panel's minimum, a positive cycle duration) and still applies the other
\* fields of the update.
C27_OutOfRangeClamped ==
  LET w == UpdateEnvironmentConfiguration(World, OutOfRangeConfig)
  IN  /\ w.envValues.atmosphericSky.rayleigh = 10
      /\ w.sky.uniforms.rayleigh = 10
      /\ w.envValues.atmosphericSky.turbidity >= MinTurbidity
      /\ w.sky.uniforms.turbidity >= MinTurbidity
      /\ w.sun.present => w.sunTracking.cycleDuration > 0

\* the generation id of a load is its position in the order of the requests;
\* the id issued most recently is the number of requests so far
LatestGeneration == Len(loads)

\* the loads in flight whose resolution the promise-identity check would apply
Authoritative == { i \in PendingLoads(loads) : skyboxState.latestPromise = i }

\* C28: in every reachable state, the promise recorded as latestPromise is
\* the one of the most recent request, so that for every load in flight the
\* promise-identity check passes exactly when its generation id is the
\* latest id; a resolution is applied in exactly that case, and at most one
\* load in flight is authoritative.
C28_IdentityGuardIsGenerationCounter ==
  /\ skyboxState.latestPromise = LatestGeneration
  /\ Cardinality(Authoritative) <= 1
  /\ \A i \in PendingLoads(loads) :
       LET settled == [ World EXCEPT !.loads[i].status = "fulfilled" ]
       IN  /\ (skyboxState.latestPromise = i) <=> (i = LatestGeneration)
           /\ OnLoaded(World, i) =
                 IF i = LatestGeneration
                 THEN ApplyEnvMap(settled, MapOf(i))
                 ELSE settled

\* two loads were in flight together; the first resolved after the second
\* request and was not applied, the second is still the authoritative one
C28_Witness ==
  /\ Len(loads) = 2
  /\ 1 \in loads[2].overlap
  /\ loads[1].status = "fulfilled"
  /\ loads[2].status = "pending"
  /\ Authoritative = { 2 }
  /\ scene.background # MapOf(1)

\* no map of a decode that has not resolved is in the scene
HungNeverApplied ==
  \A i \in PendingLoads(loads) :
    scene.environment # MapOf(i) /\ scene.background # MapOf(i)

\* a step in which the latest load resolves while an earlier load for another
\* URL is still pending shows the latest load's map
LaterResolutionApplied ==
  \A j \in PendingLoads(loads) :
    ( /\ j = Len(loads)
      /\ Len(loads') = Len(loads)
      /\ loads'[j].status = "fulfilled"
      /\ \E h \in PendingLoads(loads) : h < j /\ loads[h].url # loads[j].url )
    => /\ scene'.environment = MapOf(j)
       /\ scene'.background = MapOf(j)
       /\ \A h \in PendingLoads(loads) \ { j } : loads'[h].status = "pending"

\* C29: a decode that does not resolve never changes the scene (its map is
\* never the scene's environment or background), and it does not block a
\* later load: when the decode of the latest load, for another URL,
\* resolves while the earlier one is still pending, the later map is applied
\* in the step of the resolution.
C29_HungDecodeDoesNotBlock ==
  [] HungNeverApplied /\ [][LaterResolutionApplied]_vars

\* the first decode still hangs while the second load, for another URL, has
\* resolved and its map is in the scene
C29_Witness ==
  /\ Len(loads) = 2
  /\ loads[1].status = "pending"
  /\ loads[2].status = "fulfilled"
  /\ loads[1].url # loads[2].url
  /\ scene.environment = MapOf(2)
  /\ scene.background = MapOf(2)
  /\ now > 0

\* configurations that give a bloom intensity, 0 among them
BloomConfigs ==
  { [ EmptyConfig EXCEPT !.bloomIntensity = b ] : b \in { 0, 20 } }

\* C30 as stated: a bloom intensity given in the configuration is the bloom
\* effect's intensity after construction with that configuration and after
\* an update with it, for every numeric value, 0 included.
C30_BloomAppliedIncludingZero ==
  \A config \in BloomConfigs :
    /\ UpdateEnvironmentConfiguration(World, config).bloomEffect.intensity
         = config.bloomIntensity
    /\ \A spawnSun \in BOOLEAN :
         Constructor(config, spawnSun, FALSE, TRUE, TRUE, 15).bloomEffect.intensity
           = config.bloomIntensity

\* the maps of the panoramas requested so far in world w
PanoramaMapsOf(w) ==
  { PanoramaMap(i, w.loads[i].url) : i \in 1..Len(w.loads) }

\* C31 as stated: when the configuration in force selects the atmospheric
\* sky and a panorama load issued before that selection is still pending,
\* the resolution of the panorama leaves the scene's environment the sky's
\* map and its background null.
C31_AtmosphericSurvivesStaleLoad ==
  environmentConfiguration \in AtmosphericConfigs =>
    \A i \in PendingLoads(loads) :
      /\ OnLoaded(World, i).scene.environment = SkyMap
      /\ OnLoaded(World, i).scene.background = NullTexture

\* C32 as stated: when the atmospheric sky is selected after the panorama
\* for a URL was applied, a configuration that names that URL again starts
\* a decode or leaves the scene showing that panorama.
C32_ReselectedPanoramaIsShown ==
  \A config \in PanoramaConfigs :
    ( /\ environmentConfiguration \in AtmosphericConfigs
      /\ PendingLoads(loads) = { }
      /\ scene.environment = SkyMap
      /\ \E i \in 1..Len(loads) :
           /\ skyboxState.latestPromise = i
           /\ loads[i].status = "fulfilled"
           /\ loads[i].url = config.skybox.url )
    => LET w == UpdateEnvironmentConfiguration(World, config)
       IN  \/ Len(w.loads) > Len(loads)
           \/ /\ w.scene.background \in PanoramaMapsOf(w)
              /\ w.scene.background.url = config.skybox.url

\* a panorama is the active source: the configuration names it, its load was
\* the last one issued, and its decoded map is the environment and the
\* background
PanoramaActive ==
  /\ environmentConfiguration \in PanoramaConfigs
  /\ Len(loads) > 0
  /\ skyboxState.latestPromise = Len(loads)
  /\ loads[Len(loads)].status = "fulfilled"
  /\ scene.environment = MapOf(Len(loads))
  /\ scene.background = MapOf(Len(loads))

\* C33 as stated: while a panorama is the active source, a frame (with sun
\* tracking enabled or not) and a change of a sun value in the panel leave
\* the scene's environment and background the panorama's map.
C33_PanoramaSurvivesSunUpdates ==
  PanoramaActive =>
    /\ \A time \in { t \in SunFrameTimes : t >= now } :
         /\ Render(World, time).scene.environment = scene.environment
         /\ Render(World, time).scene.background = scene.background
    /\ \A kv \in SunPanelInputs :
         /\ PanelSunChange(World, kv[1], kv[2]).scene.environment
              = scene.environment
         /\ PanelSunChange(World, kv[1], kv[2]).scene.background
              = scene.background

\* C34 as stated: when the load last issued has failed without being applied
\* (or still hangs), a request for its URL through the same loader starts a
\* new decode, and the URL is not recorded as the current source.
C34_FailedUrlCanBeRetried ==
  \A i \in 1..Len(loads) :
    ( /\ skyboxState.latestPromise = i
      /\ loads[i].status \in { "rejected", "failed", "pending" } )
    => /\ Len(UseLoader(World, loads[i].loader, loads[i].url).loads)
            = Len(loads) + 1
       /\ loads[i].status # "pending" =>
            /\ skyboxState.src.hdrJpgUrl # loads[i].url
            /\ skyboxState.src.hdrUrl # loads[i].url

\* C35 as stated: the resolution of a panorama load after dispose leaves the
\* scene's environment and background as dispose left them.
C35_NoApplyAfterDispose ==
  \A i \in PendingLoads(loads) :
    /\ OnLoaded(Dispose(World), i).scene.environment
         = Dispose(World).scene.environment
    /\ OnLoaded(Dispose(World), i).scene.background
         = Dispose(World).scene.background

\* the parts of the world a tracking advance writes
SunState(w) == << w.sun, w.sunValues, w.sunTracking, w.sky >>

\* C36: in every reachable state tracking is enabled only if there is a sun;
\* without a sun, enableSunTracking changes nothing, no configuration (of
\* tracking or of anything else) enables tracking, and a frame leaves the
\* sun state, the sun values and the sky's sun position as they are.
C36_TrackingOnlyWithSun ==
  /\ sunTracking.enabled => sun.present
  /\ ~sun.present =>
       /\ \A speed \in { 100, 200 }, cycleDuration \in { 10, 30 } :
            EnableSunTracking(World, speed, cycleDuration) = World
       /\ \A config \in ConfigInputs :
            UpdateEnvironmentConfiguration(World, config).sunTracking
              = sunTracking
       /\ \A time \in { t \in SunFrameTimes : t >= now } :
            SunState(Render(World, time)) = SunState(World)

\* a composer without a sun was given a configuration that enables tracking
\* and has drawn a frame since
C36_Witness ==
  /\ ~sun.present
  /\ environmentConfiguration.sun.tracking.given
  /\ environmentConfiguration.sun.tracking.enabled = "true"
  /\ ~sunTracking.enabled
  /\ renderer.frames
  /\ now = 75

\* C37 as stated: for every frame time, earlier than the recorded start
\* time or not, the azimuth a tracking advance stores in the sun values is
\* at least 0 and less than 360 degrees.
C37_TrackedAzimuthInRange ==
  Tracking =>
    \A time \in { t \in SunFrameTimes : t >= now } :
      LET az == UpdateSunTracking(World, time).sunValues.sunPosition.sunAzimuthalAngle
      IN  0 <= az /\ az < 3600

\* C38 as stated: the first advance after tracking was enabled (the start
\* time is unset) records its own frame time as the start and yields cycle
\* progress 0, the sun at the azimuth the cycle starts from.
C38_ElapsedFromFirstAdvance ==
  (Tracking /\ sunTracking.startTime = 0) =>
    \A time \in { t \in SunFrameTimes : t >= now } :
      LET w == UpdateSunTracking(World, time)
      IN  /\ w.sunTracking.startTime = time
          /\ w.sunValues.sunPosition.sunAzimuthalAngle = TrackedAzimuth(0)

\* what the constructor of a composer with a sun makes of a tracking
\* configuration: << enabled, speed, cycleDuration >>
ConstructedTracking(config) ==
  LET t == Constructor(config, TRUE, FALSE, TRUE, TRUE, 15).sunTracking
  IN  << t.enabled, t.speed, t.cycleDuration >>

\* C39: after construction with spawnSun true, tracking is disabled exactly
\* when the configuration sets tracking.enabled to false; otherwise it is
\* enabled, with the configured speed and cycle duration where they are
\* given and with speed 1.0 and cycle duration 10 where they are not.  This
\* holds of the constructor for every configuration of the model, and of
\* every state no counted operation has changed since construction.
C39_ConstructedTrackingDefaults ==
  /\ \A config \in ConfigInputs \cup SunConfigs :
       LET tr == config.sun.tracking
           off == tr.given /\ tr.enabled = "false"
           ct == ConstructedTracking(config)
       IN  /\ ct[1] = ~off
           /\ ~off =>
                /\ ct[2]
                     = IF tr.given /\ tr.speed # Absent THEN tr.speed ELSE 100
                /\ ct[3]
                     = IF tr.given /\ tr.cycleDuration # Absent
                       THEN tr.cycleDuration ELSE 10
  /\ (ops = 0 /\ sun.present) =>
       LET tr == environmentConfiguration.sun.tracking
       IN  /\ sunTracking.enabled = ~(tr.given /\ tr.enabled = "false")
           /\ sunTracking.enabled =>
                /\ sunTracking.speed
                     = IF tr.given /\ tr.speed # Absent THEN tr.speed ELSE 100
                /\ sunTracking.cycleDuration
                     = IF tr.given /\ tr.cycleDuration # Absent
                       THEN tr.cycleDuration ELSE 10

\* a composer constructed with a sun and no tracking settings
C39_Witness ==
  /\ ops = 0
  /\ sun.present
  /\ ~environmentConfiguration.sun.tracking.given
  /\ sunTracking.enabled
  /\ sunTracking.speed = 100
  /\ sunTracking.cycleDuration = 10

====
